---------------------------- MODULE Spec2Model ----------------------------
(***************************************************************************)
(* A model of cubek-einsum: notation, shape validation, pattern            *)
(* recognition, the cost model, the three path searches, the plan builder  *)
(* and the executor with its elementary kernels.                           *)
(*                                                                         *)
(* Conventions.  An index character is its Unicode code point; the         *)
(* ellipsis is the code 0.  Sequences are 1-based as in TLA+, but every    *)
(* position the program stores (step inputs, batch_dims, axes, perm) is    *)
(* kept 0-based as in the source and shifted where it is used.  Option and *)
(* Result values are records: None/Some and Ok/Err.                        *)
(***************************************************************************)
EXTENDS Integers, Sequences, FiniteSets, TLC

VARIABLES
    notation,     \* the parsed EinsumNotation of the call
    shapes,       \* the input shapes of the call
    call,         \* which entry point ran and with which parameters
    validation,   \* validate_shapes' result
    plan,         \* create_plan's result
    searched,     \* a path search's result
    tensors,      \* the caller's tensor handles: inputs and output
    device,       \* device memory: the buffers
    result,       \* einsum's return value
    text,         \* the notation string handed to the parser
    parsed,       \* parse_einsum's result
    shown,        \* the parsed notation as Display formats it
    pool,         \* a Workspace and what its last call did
    grid          \* a dot product launch: its passes, blocks and threads

vars == <<notation, shapes, call, validation, plan, searched, tensors, device, result,
          text, parsed, shown, pool, grid>>

-----------------------------------------------------------------------------
(* Bounds of the model. *)

\* Dimension sizes of the planner specification are drawn from 1..MaxDim.
MaxDim == 2

\* Widths of the ellipsis are drawn from 0..MaxEllipsis.
MaxEllipsis == 2

\* Stand-in for u64::MAX in the saturating cost arithmetic.
U64Max == 1000000000

-----------------------------------------------------------------------------
(* Calls from one modelled function to another go through Call, a dispatcher *)
(* declared RECURSIVE: TLC then keeps one coverage count per function        *)
(* instead of one per call path.  Call(f, a) is f applied to the tuple a.    *)

RECURSIVE Call(_, _)

-----------------------------------------------------------------------------
(* Option, Result and sequence helpers. *)

None == [some |-> FALSE]
Some(v) == [some |-> TRUE, val |-> v]
Ok(v) == [ok |-> TRUE, val |-> v]
Err(e) == [ok |-> FALSE, err |-> e]

Range(s) == {s[p] : p \in DOMAIN s}

Contains(s, c) == \E p \in DOMAIN s : s[p] = c

MinOf(a, b) == IF a <= b THEN a ELSE b

MaxOf(a, b) == IF a >= b THEN a ELSE b

SetMin(S) == CHOOSE x \in S : \A y \in S : x <= y

SetMax(S) == CHOOSE x \in S : \A y \in S : x >= y

RECURSIVE SortedSeq(_)
\* Iteration order of a BTreeSet: ascending.
SortedSeq(S) ==
    IF S = {} THEN <<>>
    ELSE LET m == SetMin(S) IN <<m>> \o SortedSeq(S \ {m})

RECURSIVE Product(_)
Product(s) == IF s = <<>> THEN 1 ELSE Head(s) * Product(Tail(s))

RECURSIVE SumSeq(_)
SumSeq(s) == IF s = <<>> THEN 0 ELSE Head(s) + SumSeq(Tail(s))

RECURSIVE Flatten(_)
Flatten(ss) == IF ss = <<>> THEN <<>> ELSE Head(ss) \o Flatten(Tail(ss))

\* 0-based position of the first occurrence of c in s, None if absent.
Position(s, c) ==
    IF Contains(s, c)
    THEN Some(SetMin({p \in DOMAIN s : s[p] = c}) - 1)
    ELSE None

\* s without the element at 0-based position p (Vec::remove).
RemoveAt(s, p) == [q \in 1..(Len(s) - 1) |-> IF q <= p THEN s[q] ELSE s[q + 1]]

RECURSIVE Dedup(_)
\* First occurrences only, order kept.
Dedup(s) ==
    IF s = <<>> THEN <<>>
    ELSE LET front == Dedup(SubSeq(s, 1, Len(s) - 1))
             last == s[Len(s)]
         IN IF Contains(front, last) THEN front ELSE Append(front, last)

\* HashMap::insert.
MapInsert(m, c, d) == [x \in (DOMAIN m) \cup {c} |-> IF x = c THEN d ELSE m[x]]

RECURSIVE ZipInsert(_, _, _)
\* for (c, d) in indices.zip(shape) { dim_map.insert(c, d) }
ZipInsert(m, indices, shape) ==
    IF indices = <<>> \/ shape = <<>> THEN m
    ELSE ZipInsert(MapInsert(m, Head(indices), Head(shape)), Tail(indices), Tail(shape))

-----------------------------------------------------------------------------
(* notation/subscript.rs, notation/notation.rs *)

\* Code points of the index characters the corpus uses.
Chr == [a |-> 97, b |-> 98, i |-> 105, j |-> 106, k |-> 107, l |-> 108, m |-> 109]

\* Index::Ellipsis; every other index is Index::Named(code point).
Ellipsis == 0

\* First of the circled digits that stand for the ellipsis dimensions.
BatchCharBase == 9312

has_ellipsis(sub) == Contains(sub, Ellipsis)

named_indices(sub) == SelectSeq(sub, LAMBDA c : c # Ellipsis)

explicit_count(sub) == Len(named_indices(sub))

generate_batch_indices(count) == [p \in 1..count |-> BatchCharBase + (p - 1)]

RECURSIVE expand_ellipsis(_, _)
expand_ellipsis(sub, batch) ==
    IF sub = <<>> THEN <<>>
    ELSE (IF Head(sub) = Ellipsis THEN batch ELSE <<Head(sub)>>)
         \o expand_ellipsis(Tail(sub), batch)

\* EinsumNotation::new keeps the subscripts; the derived sets are operators.
EinsumNotation(ins, out) == [inputs |-> ins, output |-> out]

num_inputs(n) == Len(n.inputs)

\* The batch_indices set of EinsumNotation::new: output indices every input contains.
notation_batch_indices(n) ==
    {c \in Range(named_indices(n.output)) : \A t \in DOMAIN n.inputs : Contains(n.inputs[t], c)}

AllInputIndices(n) == UNION {Range(named_indices(n.inputs[t])) : t \in DOMAIN n.inputs}

output_indices(n) == named_indices(n.output)

contraction_indices(n) == AllInputIndices(n) \ Range(output_indices(n))

notation_has_ellipsis(n) ==
    (\E t \in DOMAIN n.inputs : has_ellipsis(n.inputs[t])) \/ has_ellipsis(n.output)

is_unary(n) == Len(n.inputs) = 1

is_binary(n) == Len(n.inputs) = 2

is_permutation_only(n) == contraction_indices(n) = {}

is_scalar_output(n) ==
    n.output = <<>> \/ (Len(n.output) = 1 /\ has_ellipsis(n.output))

-----------------------------------------------------------------------------
(* notation/parser.rs, and Display of notation/notation.rs.  A string is the *)
(* sequence of its code points.                                              *)

\* Code points of the characters the parser tells apart; the dollar sign
\* stands for every character the grammar has no use for.
Sym == [tab |-> 9, newline |-> 10, space |-> 32, dollar |-> 36, comma |-> 44,
        dash |-> 45, dot |-> 46, gt |-> 62]

Arrow == <<Sym.dash, Sym.gt>>

\* EinsumError::ParseError { message }; character is the one the message
\* quotes, if it quotes one.
ParseError(message, character) ==
    [ok |-> FALSE, err |-> "ParseError", message |-> message, character |-> character]

\* char::is_whitespace on the characters of the model.
is_whitespace(c) == c \in {Sym.tab, Sym.newline, 11, 12, 13, Sym.space}

\* 'a'..='z' | 'A'..='Z'
is_letter(c) == c \in 65..90 \/ c \in 97..122

RECURSIVE trim_start(_)
trim_start(s) ==
    IF s # <<>> /\ is_whitespace(Head(s)) THEN trim_start(Tail(s)) ELSE s

RECURSIVE trim_end(_)
trim_end(s) ==
    IF s # <<>> /\ is_whitespace(s[Len(s)]) THEN trim_end(SubSeq(s, 1, Len(s) - 1)) ELSE s

\* str::trim
trim(s) == trim_end(trim_start(s))

\* str::find("->"): the 0-based position of the first arrow.
find_arrow(s) ==
    LET at == {p \in 1..(Len(s) - 1) : s[p] = Sym.dash /\ s[p + 1] = Sym.gt}
    IN IF at = {} THEN None ELSE Some(SetMin(at) - 1)

RECURSIVE split(_, _)
\* str::split(sep): the pieces between the separators, empty ones included.
split(s, sep) ==
    IF ~ Contains(s, sep) THEN <<s>>
    ELSE LET p == SetMin({q \in DOMAIN s : s[q] = sep})
         IN <<SubSeq(s, 1, p - 1)>> \o split(SubSeq(s, p + 1, Len(s)), sep)

RECURSIVE LenientSubscriptFrom(_, _, _)
\* A subscript parser that passes over the characters it has no use for.
LenientSubscriptFrom(s, p, subscript) ==
    IF p > Len(s) THEN Ok(subscript)
    ELSE LET c == s[p]
         IN IF c = Sym.dot
            THEN IF ~ (p + 2 <= Len(s) /\ s[p + 1] = Sym.dot /\ s[p + 2] = Sym.dot)
                 THEN ParseError("incomplete ellipsis, expected '...'", None)
                 ELSE IF has_ellipsis(subscript)
                 THEN ParseError("multiple ellipses in subscript", None)
                 ELSE LenientSubscriptFrom(s, p + 3, Append(subscript, Ellipsis))
            ELSE IF is_letter(c) THEN LenientSubscriptFrom(s, p + 1, Append(subscript, c))
            ELSE LenientSubscriptFrom(s, p + 1, subscript)

RECURSIVE SubscriptFrom(_, _, _)
\* The loop of parse_subscript from position p.
SubscriptFrom(s, p, subscript) ==
    IF p > Len(s) THEN Ok(subscript)
    ELSE LET c == s[p]
         IN IF c = Sym.dot
            THEN IF ~ (p + 2 <= Len(s) /\ s[p + 1] = Sym.dot /\ s[p + 2] = Sym.dot)
                 THEN ParseError("incomplete ellipsis, expected '...'", None)
                 ELSE IF has_ellipsis(subscript)
                 THEN ParseError("multiple ellipses in subscript", None)
                 ELSE SubscriptFrom(s, p + 3, Append(subscript, Ellipsis))
            ELSE IF is_letter(c) THEN SubscriptFrom(s, p + 1, Append(subscript, c))
            ELSE IF c \in {Sym.space, Sym.tab} THEN SubscriptFrom(s, p + 1, subscript)
            ELSE ParseError("invalid character in subscript", Some(c))

parse_subscript(s) == SubscriptFrom(s, 1, <<>>)

\* An output that lists the indices occurring once in the order they occur.
UnsortedOutput(ins) ==
    LET all == named_indices(Flatten(ins))
        once == SelectSeq(all, LAMBDA c : Cardinality({p \in DOMAIN all : all[p] = c}) = 1)
    IN Ok((IF \E t \in DOMAIN ins : has_ellipsis(ins[t]) THEN <<Ellipsis>> ELSE <<>>) \o once)

infer_output(ins) ==
    LET all == named_indices(Flatten(ins))
        counts == [c \in Range(all) |-> Cardinality({p \in DOMAIN all : all[p] = c})]
        once == SortedSeq({c \in DOMAIN counts : counts[c] = 1})
    IN Ok((IF \E t \in DOMAIN ins : has_ellipsis(ins[t]) THEN <<Ellipsis>> ELSE <<>>)
          \o once)

RECURSIVE ParseInputs(_, _, _)
\* for input_str in &input_strs { inputs.push(parse_subscript(input_str.trim())?) }
ParseInputs(input_strs, p, ins) ==
    IF p > Len(input_strs) THEN Ok(ins)
    ELSE LET r == parse_subscript(trim(input_strs[p]))
         IN IF r.ok THEN ParseInputs(input_strs, p + 1, Append(ins, r.val)) ELSE r

\* EinsumNotation::with_original
with_original(n, original) ==
    [inputs |-> n.inputs, output |-> n.output, original |-> Some(original)]

parse_einsum(str) ==
    LET s == trim(str)
        arrow_pos == find_arrow(s)
        inputs_str == IF arrow_pos.some THEN SubSeq(s, 1, arrow_pos.val) ELSE s
        output_str == IF arrow_pos.some THEN Some(SubSeq(s, arrow_pos.val + 3, Len(s))) ELSE None
        input_strs == split(inputs_str, Sym.comma)
    IN IF s = <<>> THEN ParseError("empty notation", None)
       ELSE IF Len(input_strs) = 1 /\ input_strs[1] = <<>> THEN Err("NoInputs")
       ELSE LET ins == ParseInputs(input_strs, 1, <<>>)
            IN IF ~ ins.ok THEN ins
               ELSE LET out == IF output_str.some THEN parse_subscript(trim(output_str.val))
                                                  ELSE infer_output(ins.val)
                    IN IF ~ out.ok THEN out
                       ELSE Ok(with_original(EinsumNotation(ins.val, out.val), s))

\* A rendering that writes the ellipsis with two dots.
ShortEllipsisString(sub) ==
    Flatten([p \in DOMAIN sub |->
               IF sub[p] = Ellipsis THEN <<Sym.dot, Sym.dot>> ELSE <<sub[p]>>])

\* Display of a Subscript: each named index as its character, the ellipsis as "...".
to_string(sub) ==
    Flatten([p \in DOMAIN sub |->
               IF sub[p] = Ellipsis THEN <<Sym.dot, Sym.dot, Sym.dot>> ELSE <<sub[p]>>])

RECURSIVE JoinInputs(_, _)
\* The loop of Display for EinsumNotation: a comma before every input but the first.
JoinInputs(ins, i) ==
    IF i > Len(ins) THEN <<>>
    ELSE (IF i > 1 THEN <<Sym.comma>> ELSE <<>>) \o to_string(ins[i]) \o JoinInputs(ins, i + 1)

\* impl fmt::Display for EinsumNotation
fmt(n) == JoinInputs(n.inputs, 1) \o Arrow \o to_string(n.output)

-----------------------------------------------------------------------------
(* notation/validation.rs *)

validate_output_indices(n) ==
    LET missing == {p \in DOMAIN output_indices(n) :
                      ~ \E t \in DOMAIN n.inputs : Contains(n.inputs[t], output_indices(n)[p])}
    IN IF missing = {} THEN Ok(TRUE) ELSE Err("OutputIndexNotInInputs")

CountIn(s, c) == Cardinality({p \in DOMAIN s : s[p] = c})

validate_index_counts(n) ==
    LET all == Flatten(n.inputs) \o n.output
        over == {c \in Range(named_indices(all)) : CountIn(all, c) > 3}
    IN IF over = {} THEN Ok(TRUE) ELSE Err("IndexAppearsMoreThanTwice")

validate_ellipsis_consistency(n) ==
    LET with == {t \in DOMAIN n.inputs : has_ellipsis(n.inputs[t])}
    IN IF with # {} \/ has_ellipsis(n.output)
       THEN IF Cardinality(with) # num_inputs(n) THEN Err("InconsistentEllipsis")
            ELSE IF ~ has_ellipsis(n.output) THEN Err("InconsistentEllipsis")
            ELSE Ok(TRUE)
       ELSE Ok(TRUE)

validate_notation(n) ==
    IF ~ validate_output_indices(n).ok THEN validate_output_indices(n)
    ELSE IF ~ validate_index_counts(n).ok THEN validate_index_counts(n)
    ELSE validate_ellipsis_consistency(n)

RECURSIVE EllipsisDimsFrom(_, _, _, _)
\* The loop of compute_ellipsis_dims from input t on, prev the Option so far.
EllipsisDimsFrom(n, shp, t, prev) ==
    IF t > Len(n.inputs) \/ t > Len(shp)
    THEN Ok(IF prev.some THEN prev.val ELSE 0)
    ELSE IF ~ has_ellipsis(n.inputs[t]) THEN EllipsisDimsFrom(n, shp, t + 1, prev)
    ELSE IF Len(shp[t]) < explicit_count(n.inputs[t]) THEN Err("DimensionMismatch")
    ELSE LET this == Len(shp[t]) - explicit_count(n.inputs[t])
         IN IF prev.some /\ prev.val # this THEN Err("EllipsisDimensionMismatch")
            ELSE EllipsisDimsFrom(n, shp, t + 1, Some(this))

compute_ellipsis_dims(n, shp) ==
    IF ~ notation_has_ellipsis(n) THEN Ok(0) ELSE EllipsisDimsFrom(n, shp, 1, None)

\* EinsumError::ShapeMismatch { index, expected, got }
ShapeMismatch(index, expected, got) ==
    [ok |-> FALSE, err |-> "ShapeMismatch", index |-> index, expected |-> expected, got |-> got]

RECURSIVE SwappedDimMapInput(_, _, _, _)
\* A dimension map whose error names the conflicting size as the expected
\* one and the first size as the one it got.
SwappedDimMapInput(m, expanded, shape, p) ==
    IF p > Len(expanded) THEN Ok(m)
    ELSE LET c == expanded[p]
         IN IF c \in DOMAIN m
            THEN IF m[c] # shape[p] THEN ShapeMismatch(c, shape[p], m[c])
                 ELSE SwappedDimMapInput(m, expanded, shape, p + 1)
            ELSE SwappedDimMapInput(MapInsert(m, c, shape[p]), expanded, shape, p + 1)

RECURSIVE DimMapInput(_, _, _, _)
\* The inner loop of build_dimension_map over one expanded input, from position p.
DimMapInput(m, expanded, shape, p) ==
    IF p > Len(expanded) THEN Ok(m)
    ELSE LET c == expanded[p]
         IN IF c \in DOMAIN m
            THEN IF m[c] # shape[p] THEN ShapeMismatch(c, m[c], shape[p])
                 ELSE DimMapInput(m, expanded, shape, p + 1)
            ELSE DimMapInput(MapInsert(m, c, shape[p]), expanded, shape, p + 1)

RECURSIVE DimMapFrom(_, _, _, _, _)
DimMapFrom(n, shp, batch, t, m) ==
    IF t > Len(n.inputs) \/ t > Len(shp) THEN Ok(m)
    ELSE LET expanded == named_indices(expand_ellipsis(n.inputs[t], batch))
         IN IF Len(expanded) # Len(shp[t]) THEN Err("DimensionMismatch")
            ELSE LET r == DimMapInput(m, expanded, shp[t], 1)
                 IN IF r.ok THEN DimMapFrom(n, shp, batch, t + 1, r.val) ELSE r

build_dimension_map(n, shp, ellipsis_dims) ==
    DimMapFrom(n, shp, generate_batch_indices(ellipsis_dims), 1, <<>>)

validation_compute_output_shape(n, dim_map, ellipsis_dims) ==
    LET expanded == named_indices(expand_ellipsis(n.output, generate_batch_indices(ellipsis_dims)))
    IN IF \E p \in DOMAIN expanded : expanded[p] \notin DOMAIN dim_map
       THEN Err("OutputIndexNotInInputs")
       ELSE Ok([p \in DOMAIN expanded |-> dim_map[expanded[p]]])

validate_shapes(n, shp) ==
    IF Len(shp) # num_inputs(n) THEN Err("ParseError")
    ELSE LET e == compute_ellipsis_dims(n, shp)
         IN IF ~ e.ok THEN e
            ELSE LET m == build_dimension_map(n, shp, e.val)
                 IN IF ~ m.ok THEN m
                    ELSE LET o == validation_compute_output_shape(n, m.val, e.val)
                         IN IF ~ o.ok THEN o
                            ELSE Ok([ellipsis_dims |-> e.val,
                                     dim_map |-> m.val,
                                     output_shape |-> o.val])

-----------------------------------------------------------------------------
(* pattern/unary.rs, pattern/binary.rs, pattern/matmul.rs, pattern/mod.rs *)

\* The 0-based positions in s of the characters of chars that occur in s
\* (iter().filter_map(|c| s.iter().position(..))).
PositionsOf(chars, s) ==
    LET found == SelectSeq(chars, LAMBDA c : Contains(s, c))
    IN [p \in DOMAIN found |-> Position(s, found[p]).val]

is_transpose(n) ==
    IF ~ is_unary(n) THEN None
    ELSE IF ~ is_permutation_only(n) THEN None
    ELSE IF explicit_count(n.inputs[1]) # explicit_count(n.output) THEN None
    ELSE LET input_indices == named_indices(n.inputs[1])
             permutation == PositionsOf(output_indices(n), input_indices)
         IN IF Len(permutation) # Len(input_indices) THEN None
            ELSE IF \A p \in DOMAIN permutation : permutation[p] = p - 1 THEN None
            ELSE Some(permutation)

is_reduction(n) ==
    IF ~ is_unary(n) THEN None
    ELSE IF is_permutation_only(n) THEN None
    ELSE LET input_indices == named_indices(n.inputs[1])
             reduced_axes == SortedSeq({p - 1 : p \in {q \in DOMAIN input_indices :
                                          ~ Contains(output_indices(n), input_indices[q])}})
         IN IF reduced_axes = <<>> THEN None ELSE Some(reduced_axes)

is_trace(n) ==
    IF ~ is_unary(n) THEN FALSE
    ELSE IF ~ is_scalar_output(n) THEN FALSE
    ELSE LET input_indices == named_indices(n.inputs[1])
         IN IF Cardinality(Range(input_indices)) >= Len(input_indices) THEN FALSE
            ELSE ~ \E p \in DOMAIN input_indices :
                      /\ CountIn(input_indices, input_indices[p]) > 1
                      /\ Contains(n.output, input_indices[p])

\* The repeated characters of s in the order of their second occurrence.
Repeated(s) ==
    LET second == {p \in DOMAIN s : Cardinality({q \in 1..(p - 1) : s[q] = s[p]}) = 1}
        order == SortedSeq(second)
    IN [p \in DOMAIN order |-> s[order[p]]]

is_diagonal_extract(n) ==
    IF ~ is_unary(n) THEN None
    ELSE LET input_indices == named_indices(n.inputs[1])
             repeated == Repeated(input_indices)
         IN IF repeated = <<>> THEN None
            ELSE IF \E p \in DOMAIN repeated : ~ Contains(n.output, repeated[p]) THEN None
            ELSE IF \E p \in DOMAIN input_indices :
                       /\ ~ Contains(repeated, input_indices[p])
                       /\ ~ Contains(n.output, input_indices[p])
                 THEN None
            ELSE Some([diagonal_index |-> repeated[1],
                       diagonal_dim |-> SetMin({p \in DOMAIN input_indices :
                                                  Contains(repeated, input_indices[p])}) - 1])

is_hadamard(n) ==
    IF ~ is_binary(n) THEN FALSE
    ELSE IF ~ is_permutation_only(n) THEN FALSE
    ELSE LET indices_a == Range(named_indices(n.inputs[1]))
             indices_b == Range(named_indices(n.inputs[2]))
             indices_out == Range(output_indices(n))
         IN indices_a = indices_b /\ indices_a = indices_out

is_outer_product(n) ==
    IF ~ is_binary(n) THEN FALSE
    ELSE IF ~ is_permutation_only(n) THEN FALSE
    ELSE LET indices_a == Range(named_indices(n.inputs[1]))
             indices_b == Range(named_indices(n.inputs[2]))
             indices_out == Range(output_indices(n))
         IN IF indices_a \cap indices_b # {} THEN FALSE
            ELSE (indices_a \cup indices_b) = indices_out

is_dot_product(n) ==
    IF ~ is_binary(n) THEN FALSE
    ELSE IF ~ is_scalar_output(n) THEN FALSE
    ELSE Range(named_indices(n.inputs[1])) = Range(named_indices(n.inputs[2]))

MatmulConfig(ta, tb, batch, m_dim, n_dim, k) ==
    [transpose_a |-> ta, transpose_b |-> tb, batch_dims |-> batch,
     m_dim |-> m_dim, n_dim |-> n_dim, k_index |-> k]

is_matmul(n) ==
    IF ~ is_binary(n) THEN None
    ELSE IF explicit_count(n.inputs[1]) # 2 \/ explicit_count(n.inputs[2]) # 2 THEN None
    ELSE IF explicit_count(n.output) # 2 THEN None
    ELSE LET indices_a == named_indices(n.inputs[1])
             indices_b == named_indices(n.inputs[2])
             indices_out == output_indices(n)
             set_a == Range(indices_a)
             set_b == Range(indices_b)
             set_out == Range(indices_out)
             contracted == (set_a \cap set_b) \ set_out
             m_candidates == (set_a \ set_b) \cap set_out
             n_candidates == (set_b \ set_a) \cap set_out
         IN IF Cardinality(contracted) # 1 THEN None
            ELSE IF Cardinality(m_candidates) # 1 THEN None
            ELSE IF Cardinality(n_candidates) # 1 THEN None
            ELSE LET k_index == SetMin(contracted)
                     m_index == SetMin(m_candidates)
                     n_index == SetMin(n_candidates)
                 IN Some(MatmulConfig(
                        Position(indices_a, k_index).val < Position(indices_a, m_index).val,
                        Position(indices_b, n_index).val < Position(indices_b, k_index).val,
                        <<>>,
                        Position(indices_out, m_index).val,
                        Position(indices_out, n_index).val,
                        k_index))

is_batched_matmul(n) ==
    IF ~ is_binary(n) THEN None
    ELSE IF explicit_count(n.inputs[1]) < 3 \/ explicit_count(n.inputs[2]) < 3 THEN None
    ELSE LET indices_a == named_indices(n.inputs[1])
             indices_b == named_indices(n.inputs[2])
             indices_out == output_indices(n)
             set_a == Range(indices_a)
             set_b == Range(indices_b)
             set_out == Range(indices_out)
             common_ab == set_a \cap set_b
             batch_set == common_ab \cap set_out
             batch_indices == SortedSeq(batch_set)
             contracted == common_ab \ set_out
             m_candidates == {c \in set_a \ set_b : c \in set_out /\ c \notin batch_set}
             n_candidates == {c \in set_b \ set_a : c \in set_out /\ c \notin batch_set}
             non_batch_a == SelectSeq(indices_a, LAMBDA c : c \notin batch_set)
             non_batch_b == SelectSeq(indices_b, LAMBDA c : c \notin batch_set)
             non_batch_out == SelectSeq(indices_out, LAMBDA c : c \notin batch_set)
         IN IF batch_indices = <<>> THEN None
            ELSE IF Cardinality(contracted) # 1 THEN None
            ELSE IF Cardinality(m_candidates) # 1 THEN None
            ELSE IF Cardinality(n_candidates) # 1 THEN None
            ELSE IF Len(non_batch_a) # 2 \/ Len(non_batch_b) # 2 THEN None
            ELSE IF Len(non_batch_out) # 2 THEN None
            ELSE LET k_index == SetMin(contracted)
                     m_index == SetMin(m_candidates)
                     n_index == SetMin(n_candidates)
                     batch_dims == PositionsOf(batch_indices, indices_out)
                 IN Some(MatmulConfig(
                        Position(non_batch_a, k_index).val < Position(non_batch_a, m_index).val,
                        Position(non_batch_b, n_index).val < Position(non_batch_b, k_index).val,
                        batch_dims,
                        Len(batch_dims) + Position(non_batch_out, m_index).val,
                        Len(batch_dims) + Position(non_batch_out, n_index).val,
                        k_index))

UnaryPattern(n) ==
    IF is_transpose(n).some
    THEN Some([kind |-> "Transpose", permutation |-> is_transpose(n).val])
    ELSE IF is_trace(n) THEN Some([kind |-> "Trace"])
    ELSE IF is_diagonal_extract(n).some THEN Some([kind |-> "DiagonalExtract"])
    ELSE IF is_reduction(n).some
    THEN Some([kind |-> "Reduce", axes |-> is_reduction(n).val])
    ELSE None

BinaryPattern(n) ==
    IF is_batched_matmul(n).some
    THEN LET c == is_batched_matmul(n).val
         IN Some([kind |-> "BatchedMatmul", batch_dims |-> c.batch_dims,
                  transpose_a |-> c.transpose_a, transpose_b |-> c.transpose_b])
    ELSE IF is_matmul(n).some
    THEN LET c == is_matmul(n).val
         IN Some([kind |-> "Matmul",
                  transpose_a |-> c.transpose_a, transpose_b |-> c.transpose_b])
    ELSE IF is_hadamard(n) THEN Some([kind |-> "Hadamard"])
    ELSE IF is_outer_product(n) THEN Some([kind |-> "OuterProduct"])
    ELSE IF is_dot_product(n) THEN Some([kind |-> "DotProduct"])
    ELSE None

recognize_pattern(n) ==
    LET unary == IF is_unary(n) THEN UnaryPattern(n) ELSE None
    IN IF unary.some THEN unary
       ELSE IF is_binary(n) THEN BinaryPattern(n)
       ELSE None

-----------------------------------------------------------------------------
(* optimization/cost.rs *)

\* A panic (arithmetic fault, failed expect/unwrap/assert) aborts the call.
\* Every value tested with IsPanic is a record.
Panic(msg) == [panic |-> msg]

IsPanic(x) == "panic" \in DOMAIN x

saturating_add(x, y) == MinOf(x + y, U64Max)

saturating_mul(x, y) ==
    IF x = 0 \/ y = 0 THEN 0
    ELSE IF x > U64Max \div y THEN U64Max
    ELSE x * y

ContractionCost(flops, memory, alpha) ==
    [flops |-> flops, memory |-> memory,
     total |-> saturating_add(flops, saturating_mul(memory, alpha))]

ZeroCost == [flops |-> 0, memory |-> 0, total |-> 0]

\* ContractionCost::new(u64::MAX, u64::MAX, 1)
MaxCost == ContractionCost(U64Max, U64Max, 1)

\* impl Add for ContractionCost
CostAdd(x, y) ==
    [flops |-> saturating_add(x.flops, y.flops),
     memory |-> saturating_add(x.memory, y.memory),
     total |-> saturating_add(x.total, y.total)]

\* impl Ord for ContractionCost: by total only.
CostLess(x, y) == x.total < y.total

\* CostModel::default(), CostModel::gpu()
DefaultAlpha == 64

\* CostModel::cpu()
CpuAlpha == 8

RECURSIVE SatProductOver(_, _, _)
\* Folds saturating_mul over the dimensions of the counted characters.
SatProductOver(acc, chars, dim_map) ==
    IF chars = <<>> THEN acc
    ELSE SatProductOver(saturating_mul(acc, dim_map[Head(chars)]), Tail(chars), dim_map)

compute_pairwise_cost(alpha, shape_a, shape_b, indices_a, indices_b, contracted) ==
    LET dim_map == ZipInsert(ZipInsert(<<>>, indices_a, shape_a), indices_b, shape_b)
        counted == SelectSeq(indices_a \o indices_b,
                             LAMBDA c : ~ Contains(contracted, c) /\ c \in DOMAIN dim_map)
        doubled == SatProductOver(1, counted, dim_map)
        common_non_contracted ==
            {c \in Range(indices_a) \cap Range(indices_b) :
                ~ Contains(contracted, c) /\ c \in DOMAIN dim_map}
        divisor == Product([p \in DOMAIN SortedSeq(common_non_contracted) |->
                              dim_map[SortedSeq(common_non_contracted)[p]]])
        summed == SelectSeq(contracted, LAMBDA c : c \in DOMAIN dim_map)
        contracted_size == Product([p \in DOMAIN summed |-> dim_map[summed[p]]])
    IN IF \E c \in common_non_contracted : dim_map[c] = 0
       THEN Panic("attempt to divide by zero")
       ELSE LET output_size == doubled \div divisor
                flops == saturating_mul(saturating_mul(output_size, contracted_size), 2)
                memory == Product(shape_a) + Product(shape_b) + output_size
            IN ContractionCost(flops, memory, alpha)

optimistic_remaining_cost(alpha, shps) ==
    IF Len(shps) <= 1 THEN ZeroCost
    ELSE LET total_elements == SumSeq([t \in DOMAIN shps |-> Product(shps[t])])
         IN ContractionCost(total_elements, total_elements, alpha)

-----------------------------------------------------------------------------
(* optimization/path.rs *)

\* lhs and rhs are history fields: the index lists of the two operands the
\* planner read when it derived the step.
ContractionStep(inputs, contracted, result_indices, flops, lhs, rhs) ==
    [inputs |-> inputs, contracted_indices |-> contracted,
     result_indices |-> result_indices, estimated_flops |-> flops,
     lhs |-> lhs, rhs |-> rhs]

\* ContractionPath::new
EmptyPath == [steps |-> <<>>, total_flops |-> 0]

\* ContractionPath::push
PathPush(p, step) ==
    [steps |-> Append(p.steps, step),
     total_flops |-> saturating_add(p.total_flops, step.estimated_flops)]

RECURSIVE PathOf(_)
\* A path built by pushing the steps in order.
PathOf(steps) ==
    IF steps = <<>> THEN EmptyPath
    ELSE PathPush(PathOf(SubSeq(steps, 1, Len(steps) - 1)), steps[Len(steps)])

\* TensorState::new
TensorState(shps, indices) ==
    [shapes |-> shps, indices |-> indices,
     original_indices |-> [t \in DOMAIN shps |-> t - 1]]

\* The tensors of s other than those at 0-based positions i and j, in order.
Others(s, i, j) ==
    LET keep == SortedSeq({t \in DOMAIN s : t - 1 # i /\ t - 1 # j})
    IN [q \in DOMAIN keep |-> s[keep[q]]]

\* TensorState::contract: the result goes to the end of the list.
contract(state, i, j, result_indices) ==
    IF ~ (i < j /\ j < Len(state.shapes)) THEN Panic("assertion failed: i < j && j < self.len()")
    ELSE LET dim_map == ZipInsert(ZipInsert(<<>>, state.indices[i + 1], state.shapes[i + 1]),
                                  state.indices[j + 1], state.shapes[j + 1])
             result_shape == [p \in DOMAIN result_indices |->
                                IF result_indices[p] \in DOMAIN dim_map
                                THEN dim_map[result_indices[p]] ELSE 1]
         IN [shapes |-> Append(Others(state.shapes, i, j), result_shape),
             indices |-> Append(Others(state.indices, i, j), result_indices),
             original_indices |->
                 Append(Others(state.original_indices, i, j),
                        MinOf(state.original_indices[i + 1], state.original_indices[j + 1]))]

-----------------------------------------------------------------------------
(* optimization/greedy.rs *)

\* The characters of indices_i then indices_j that are not contracted, once each.
ResultIndices(indices_i, indices_j, contracted) ==
    Dedup(SelectSeq(indices_i \o indices_j, LAMBDA c : ~ Contains(contracted, c)))

\* The pairs (i, j), i < j < n, in the order of the two nested loops.
PairsInOrder(n) ==
    LET S == {<<i, j>> \in (0..(n - 1)) \X (0..(n - 1)) : i < j}
        order == SortedSeq({pr[1] * n + pr[2] : pr \in S})
    IN [q \in DOMAIN order |-> <<order[q] \div n, order[q] % n>>]

evaluate_pair(state, i, j, final_output, alpha) ==
    LET indices_i == state.indices[i + 1]
        indices_j == state.indices[j + 1]
        common == Range(indices_i) \cap Range(indices_j)
        kept_elsewhere ==
            final_output \cup
            UNION {Range(state.indices[t]) : t \in {u \in DOMAIN state.indices :
                                                      u - 1 # i /\ u - 1 # j}}
        contracted == SortedSeq(common \ kept_elsewhere)
        cost == Call("compute_pairwise_cost", <<alpha, state.shapes[i + 1], state.shapes[j + 1],
                                      indices_i, indices_j, contracted>>)
    IN IF IsPanic(cost) THEN cost
       ELSE [step |-> ContractionStep(<<i, j>>, contracted,
                                      ResultIndices(indices_i, indices_j, contracted),
                                      cost.flops, indices_i, indices_j),
             cost |-> cost]

RECURSIVE FindBestFrom(_, _, _, _, _, _, _)
\* The nested loops of find_best_pair from the q-th pair on.
FindBestFrom(state, final_output, alpha, pairs, q, best_cost, best_step) ==
    IF q > Len(pairs)
    THEN IF best_step.some THEN best_step.val ELSE Panic("should have at least one pair")
    ELSE LET e == Call("evaluate_pair", <<state, pairs[q][1], pairs[q][2], final_output, alpha>>)
         IN IF IsPanic(e) THEN e
            ELSE IF CostLess(e.cost, best_cost)
            THEN FindBestFrom(state, final_output, alpha, pairs, q + 1, e.cost, Some(e.step))
            ELSE FindBestFrom(state, final_output, alpha, pairs, q + 1, best_cost, best_step)

find_best_pair(state, final_output, alpha) ==
    FindBestFrom(state, final_output, alpha, PairsInOrder(Len(state.shapes)), 1, MaxCost, None)

RECURSIVE GreedyLoop(_, _, _, _)
\* while state.len() > 1 { ... }
GreedyLoop(state, final_output, alpha, p) ==
    IF Len(state.shapes) <= 1 THEN p
    ELSE LET step == Call("find_best_pair", <<state, final_output, alpha>>)
         IN IF IsPanic(step) THEN step
            ELSE GreedyLoop(Call("contract", <<state, step.inputs[1], step.inputs[2], step.result_indices>>),
                            final_output, alpha, PathPush(p, step))

InitialIndices(n) == [t \in DOMAIN n.inputs |-> named_indices(n.inputs[t])]

greedy_path(n, shps, alpha) ==
    IF num_inputs(n) = 0 \/ num_inputs(n) = 1 THEN EmptyPath
    ELSE GreedyLoop(TensorState(shps, InitialIndices(n)),
                    Range(output_indices(n)), alpha, EmptyPath)

-----------------------------------------------------------------------------
(* optimization/dynamic.rs *)

MAX_DP_TENSORS == 12

\* The tensors of a u32 subset mask.
Bits(mask) == {t \in 0..(MAX_DP_TENSORS - 1) : (mask \div (2 ^ t)) % 2 = 1}

Reverse(s) == [q \in DOMAIN s |-> s[Len(s) + 1 - q]]

\* proper_subsets(subset) after the loop's two continues: the submasks in
\* descending order, without the subset itself and without left > right.
Lefts(subset) ==
    Reverse(SortedSeq({left \in 1..(subset - 1) :
                          Bits(left) \subseteq Bits(subset) /\ left <= subset - left}))

compute_contraction(shape_a, indices_a, shape_b, indices_b, output_set, alpha) ==
    LET common == Range(indices_a) \cap Range(indices_b)
        contracted == SortedSeq(common \ output_set)
        result_indices == ResultIndices(indices_a, indices_b, contracted)
        dim_map == ZipInsert(ZipInsert(<<>>, indices_a, shape_a), indices_b, shape_b)
        result_shape == [p \in DOMAIN result_indices |->
                            IF result_indices[p] \in DOMAIN dim_map
                            THEN dim_map[result_indices[p]] ELSE 1]
        cost == Call("compute_pairwise_cost", <<alpha, shape_a, shape_b, indices_a, indices_b, contracted>>)
    IN IF IsPanic(cost) THEN cost
       ELSE [cost |-> cost, shape |-> result_shape, indices |-> result_indices]

RECURSIVE BestBipartition(_, _, _, _, _, _, _)
\* The loop over the bipartitions of one subset from the q-th left on; best
\* holds best_cost, best_path and best_result.
BestBipartition(subset, lefts, q, table, output_set, alpha, best) ==
    IF q > Len(lefts) THEN best
    ELSE LET left == lefts[q]
             right == subset - left
         IN IF ~ table[left].res.some \/ ~ table[right].res.some
            THEN Panic("called Option::unwrap() on a None value")
            ELSE LET c == Call("compute_contraction", <<table[left].res.val.shape,
                                              table[left].res.val.indices,
                                              table[right].res.val.shape,
                                              table[right].res.val.indices,
                                              output_set, alpha>>)
                 IN IF IsPanic(c) THEN c
                    ELSE LET total_cost == CostAdd(CostAdd(table[left].cost, table[right].cost),
                                                   c.cost)
                         IN IF CostLess(total_cost, best.cost)
                            THEN BestBipartition(subset, lefts, q + 1, table, output_set, alpha,
                                    [cost |-> total_cost,
                                     pairs |-> Append(table[left].pairs \o table[right].pairs,
                                                      <<SetMin(Bits(left)), SetMin(Bits(right))>>),
                                     res |-> Some([shape |-> c.shape, indices |-> c.indices])])
                            ELSE BestBipartition(subset, lefts, q + 1, table, output_set, alpha,
                                                 best)

RECURSIVE FillTable(_, _, _, _, _, _, _)
\* memo and result_cache, filled for the subsets subset..full.  The source
\* walks the subsets by size; an entry reads only proper submasks, which are
\* numerically smaller, so ascending masks fill the same table.
FillTable(subset, full, table, shps, indices, output_set, alpha) ==
    IF subset > full THEN [memo |-> table]
    ELSE LET entry ==
                 IF Cardinality(Bits(subset)) = 1
                 THEN LET t == SetMin(Bits(subset)) + 1
                      IN [cost |-> ZeroCost, pairs |-> <<>>,
                          res |-> Some([shape |-> shps[t], indices |-> indices[t]])]
                 ELSE BestBipartition(subset, Lefts(subset), 1, table, output_set, alpha,
                                      [cost |-> MaxCost, pairs |-> <<>>, res |-> None])
         IN IF IsPanic(entry) THEN entry
            ELSE FillTable(subset + 1, full, MapInsert(table, subset, entry),
                           shps, indices, output_set, alpha)

RECURSIVE BuildFrom(_, _, _, _, _, _)
\* The loop of build_contraction_path from the q-th pair on: the step replaces
\* position i of current_indices and position j is removed.
BuildFrom(pairs, q, current_indices, index_to_position, output_set, p) ==
    IF q > Len(pairs) THEN p
    ELSE LET left_pos == index_to_position[pairs[q][1] + 1]
             right_pos == index_to_position[pairs[q][2] + 1]
             i == MinOf(left_pos, right_pos)
             j == MaxOf(left_pos, right_pos)
             common == Range(current_indices[i + 1]) \cap Range(current_indices[j + 1])
             contracted == SortedSeq(common \ output_set)
             result_indices == ResultIndices(current_indices[i + 1], current_indices[j + 1],
                                             contracted)
             step == ContractionStep(<<i, j>>, contracted, result_indices, 0,
                                     current_indices[i + 1], current_indices[j + 1])
             replaced == [current_indices EXCEPT ![i + 1] = result_indices]
         IN BuildFrom(pairs, q + 1, RemoveAt(replaced, j),
                      [t \in DOMAIN index_to_position |->
                          IF index_to_position[t] = j THEN i
                          ELSE IF index_to_position[t] > j THEN index_to_position[t] - 1
                          ELSE index_to_position[t]],
                      output_set, PathPush(p, step))

build_contraction_path(pairs, initial_indices, output_set) ==
    BuildFrom(pairs, 1, initial_indices, [t \in DOMAIN initial_indices |-> t - 1],
              output_set, EmptyPath)

optimal_path(n, shps, alpha) ==
    IF num_inputs(n) = 0 \/ num_inputs(n) = 1 THEN EmptyPath
    ELSE IF num_inputs(n) > MAX_DP_TENSORS THEN Panic("DP is only feasible for 12 tensors or fewer")
    ELSE LET full == (2 ^ num_inputs(n)) - 1
             table == FillTable(1, full, <<>>, shps, InitialIndices(n),
                                Range(output_indices(n)), alpha)
         IN IF IsPanic(table) THEN table
            ELSE Call("build_contraction_path", <<table.memo[full].pairs, InitialIndices(n),
                                        Range(output_indices(n))>>)

-----------------------------------------------------------------------------
(* optimization/branch_bound.rs *)

MAX_SEARCH_DEPTH == 8

MAX_NODES == 100000

RECURSIVE CandidatesFrom(_, _, _, _, _, _)
\* The nested loops of generate_candidates from the q-th pair on.  A candidate
\* is derived by the same rule as greedy's evaluate_pair.
CandidatesFrom(state, output_set, alpha, pairs, q, acc) ==
    IF q > Len(pairs) THEN [candidates |-> acc]
    ELSE LET e == Call("evaluate_pair", <<state, pairs[q][1], pairs[q][2], output_set, alpha>>)
         IN IF IsPanic(e) THEN e
            ELSE CandidatesFrom(state, output_set, alpha, pairs, q + 1, Append(acc, e))

generate_candidates(state, output_set, alpha) ==
    CandidatesFrom(state, output_set, alpha, PairsInOrder(Len(state.shapes)), 1, <<>>)

RECURSIVE SortByCost(_)
\* candidates.sort_by(|a, b| a.2.cmp(&b.2)): stable.
SortByCost(c) ==
    IF Len(c) <= 1 THEN c
    ELSE LET front == SortByCost(SubSeq(c, 1, Len(c) - 1))
             x == c[Len(c)]
             k == Cardinality({q \in DOMAIN front : ~ CostLess(x.cost, front[q].cost)})
         IN SubSeq(front, 1, k) \o <<x>> \o SubSeq(front, k + 1, Len(front))

\* min_by(|a, b| a.2.cmp(&b.2)): the first of the minima.
FirstMinByCost(c) ==
    c[SetMin({q \in DOMAIN c : \A r \in DOMAIN c : ~ CostLess(c[r].cost, c[q].cost)})]

RECURSIVE ReplayCost(_, _, _, _, _)
\* The loop shared by compute_path_cost and greedy_remaining_cost from step q on.
ReplayCost(steps, q, state, alpha, total) ==
    IF q > Len(steps) THEN total
    ELSE LET i == steps[q].inputs[1]
             j == steps[q].inputs[2]
         IN IF i >= Len(state.shapes) \/ j >= Len(state.shapes)
            THEN Panic("index out of bounds")
            ELSE LET cost == Call("compute_pairwise_cost", <<alpha, state.shapes[i + 1], state.shapes[j + 1],
                                                   state.indices[i + 1], state.indices[j + 1],
                                                   steps[q].contracted_indices>>)
                     next == Call("contract", <<state, i, j, steps[q].result_indices>>)
                 IN IF IsPanic(cost) THEN cost
                    ELSE IF IsPanic(next) THEN next
                    ELSE ReplayCost(steps, q + 1, next, alpha, CostAdd(total, cost))

compute_path_cost(p, initial_shapes, initial_indices, alpha) ==
    ReplayCost(p.steps, 1, TensorState(initial_shapes, initial_indices), alpha, ZeroCost)

RECURSIVE RemainingFrom(_, _, _, _)
\* while current_state.len() > 1 { ... } of greedy_remaining_steps.
RemainingFrom(state, output_set, alpha, steps) ==
    IF Len(state.shapes) <= 1 THEN [steps |-> steps]
    ELSE LET c == Call("generate_candidates", <<state, output_set, alpha>>)
         IN IF IsPanic(c) THEN c
            ELSE IF c.candidates = <<>> THEN Panic("should have candidates")
            ELSE LET best == FirstMinByCost(c.candidates)
                 IN RemainingFrom(Call("contract", <<state, best.step.inputs[1], best.step.inputs[2],
                                           best.step.result_indices>>),
                                  output_set, alpha, Append(steps, best.step))

greedy_remaining_steps(state, output_set, alpha) ==
    RemainingFrom(state, output_set, alpha, <<>>)

greedy_remaining_cost(state, output_set, alpha) ==
    LET r == Call("greedy_remaining_steps", <<state, output_set, alpha>>)
    IN IF IsPanic(r) THEN r ELSE ReplayCost(r.steps, 1, state, alpha, ZeroCost)

\* The same update without its comparison: what the search would keep if it
\* recorded every completed path.
RecordAlways(st, cost, steps) ==
    [st EXCEPT !.best_cost = cost, !.best_path = Some(PathOf(steps)),
               !.log = Append(st.log, cost.total)]

\* if cost < state.best_cost { state.best_cost = cost; state.best_path = Some(path) }
\* log is a history field: every value best_cost has taken, in order.
RecordIfBetter(st, cost, steps) ==
    IF CostLess(cost, st.best_cost)
    THEN [st EXCEPT !.best_cost = cost, !.best_path = Some(PathOf(steps)),
                    !.log = Append(st.log, cost.total)]
    ELSE st

RECURSIVE branch_bound_search_with_limits(_, _, _, _, _, _)
RECURSIVE TryCandidates(_, _, _, _, _, _, _, _)

\* for (i, j, step_cost, step) in candidates { ... } from the q-th candidate on.
\* lim holds the arguments that never change: max_nodes, max_depth,
\* output_indices and the cost model's alpha.
TryCandidates(st, tensor_state, cands, q, current_path, current_cost, depth, lim) ==
    IF q > Len(cands) THEN st
    ELSE LET new_cost == CostAdd(current_cost, cands[q].cost)
         IN IF ~ CostLess(new_cost, st.best_cost) THEN st
            ELSE LET after ==
                         branch_bound_search_with_limits(
                             st,
                             Call("contract", <<tensor_state, cands[q].step.inputs[1],
                                      cands[q].step.inputs[2], cands[q].step.result_indices>>),
                             Append(current_path, cands[q].step), new_cost, depth + 1, lim)
                 IN IF IsPanic(after) THEN after
                    ELSE IF after.nodes_explored >= lim.max_nodes THEN after
                    ELSE TryCandidates(after, tensor_state, cands, q + 1, current_path,
                                       current_cost, depth, lim)

\* branch_bound_search is this function with max_nodes = MAX_NODES and
\* max_depth = MAX_SEARCH_DEPTH.
branch_bound_search_with_limits(st0, tensor_state, current_path, current_cost, depth, lim) ==
    LET st == [st0 EXCEPT !.nodes_explored = @ + 1]
    IN IF st.nodes_explored >= lim.max_nodes THEN st
       ELSE IF Len(tensor_state.shapes) <= 1
       THEN Call("RecordIfBetter", <<st, current_cost, current_path>>)
       ELSE IF depth >= lim.max_depth
       THEN LET remaining_cost ==
                    Call("greedy_remaining_cost", <<tensor_state, lim.output_indices, lim.alpha>>)
            IN IF IsPanic(remaining_cost) THEN remaining_cost
               ELSE Call("RecordIfBetter", <<st, CostAdd(current_cost, remaining_cost),
                        current_path \o Call("greedy_remaining_steps", <<tensor_state, lim.output_indices,
                                                               lim.alpha>>).steps>>)
       ELSE LET lower_bound == Call("optimistic_remaining_cost", <<lim.alpha, tensor_state.shapes>>)
            IN IF ~ CostLess(CostAdd(current_cost, lower_bound), st.best_cost) THEN st
               ELSE LET c == Call("generate_candidates", <<tensor_state, lim.output_indices, lim.alpha>>)
                    IN IF IsPanic(c) THEN c
                       ELSE TryCandidates(st, tensor_state, SortByCost(c.candidates), 1,
                                          current_path, current_cost, depth, lim)

\* The search state after branch_bound_path_with_limits' search returns.
SearchWithLimits(n, shps, alpha, max_nodes, max_depth) ==
    LET greedy == Call("greedy_path", <<n, shps, alpha>>)
    IN IF IsPanic(greedy) THEN greedy
       ELSE LET greedy_cost == Call("compute_path_cost", <<greedy, shps, InitialIndices(n), alpha>>)
            IN IF IsPanic(greedy_cost) THEN greedy_cost
               ELSE branch_bound_search_with_limits(
                        [best_path |-> Some(greedy), best_cost |-> greedy_cost,
                         nodes_explored |-> 0, log |-> <<greedy_cost.total>>],
                        TensorState(shps, InitialIndices(n)), <<>>, ZeroCost, 0,
                        [max_nodes |-> max_nodes, max_depth |-> max_depth,
                         output_indices |-> Range(output_indices(n)), alpha |-> alpha])

\* The returned path carries the history field log: the total of every best
\* cost the search recorded, the seeding greedy cost first.
branch_bound_path_with_limits(n, shps, alpha, max_nodes, max_depth) ==
    IF num_inputs(n) = 0 \/ num_inputs(n) = 1 THEN EmptyPath
    ELSE LET st == Call("SearchWithLimits", <<n, shps, alpha, max_nodes, max_depth>>)
             best == IF st.best_path.some THEN st.best_path.val ELSE EmptyPath
         IN IF IsPanic(st) THEN st
            ELSE [steps |-> best.steps, total_flops |-> best.total_flops, log |-> st.log]

branch_bound_path(n, shps, alpha) ==
    Call("branch_bound_path_with_limits", <<n, shps, alpha, MAX_NODES, MAX_SEARCH_DEPTH>>)

-----------------------------------------------------------------------------
(* optimization/plan.rs *)

MAX_BB_TENSORS == 20

\* The largest input count for which ContractionStrategy::Auto runs the DP.
AUTO_DP_TENSORS == 4

Strategies == {"Greedy", "Optimal", "BranchBound", "Auto"}

\* shape.get(p).copied().unwrap_or(1), p 0-based.
GetOr1(shape, p) == IF p + 1 \in DOMAIN shape THEN shape[p + 1] ELSE 1

estimate_fast_path_flops(fp, shps) ==
    CASE fp.kind = "Matmul" ->
            IF Len(shps) >= 2
            THEN 2 * GetOr1(shps[1], 0) * GetOr1(shps[1], 1) * GetOr1(shps[2], 1)
            ELSE 0
      [] fp.kind = "BatchedMatmul" ->
            IF Len(shps) >= 2
            THEN LET nb == Len(fp.batch_dims)
                     batch_size == Product([p \in DOMAIN fp.batch_dims |->
                                              GetOr1(shps[1], fp.batch_dims[p])])
                 IN 2 * batch_size * GetOr1(shps[1], nb) * GetOr1(shps[1], nb + 1)
                      * GetOr1(shps[2], nb + 1)
            ELSE 0
      [] fp.kind \in {"Reduce", "Transpose", "Hadamard"} ->
            IF Len(shps) >= 1 THEN Product(shps[1]) ELSE 0
      [] fp.kind = "OuterProduct" ->
            IF Len(shps) >= 2 THEN Product(shps[1]) * Product(shps[2]) ELSE 0
      [] fp.kind = "DotProduct" ->
            IF Len(shps) >= 1 THEN 2 * Product(shps[1]) ELSE 0
      [] fp.kind \in {"Trace", "DiagonalExtract"} ->
            IF Len(shps) >= 1 THEN GetOr1(shps[1], 0) ELSE 0

RECURSIVE PlanDimMap(_, _, _, _)
\* The loop of plan.rs compute_output_shape over the inputs from t on: the
\* named indices are zipped with the shape, the ellipsis is not expanded.
PlanDimMap(n, shps, t, m) ==
    IF t > Len(n.inputs) \/ t > Len(shps) THEN m
    ELSE PlanDimMap(n, shps, t + 1, ZipInsert(m, named_indices(n.inputs[t]), shps[t]))

plan_compute_output_shape(n, shps) ==
    LET dim_map == PlanDimMap(n, shps, 1, <<>>)
        kept == SelectSeq(output_indices(n), LAMBDA c : c \in DOMAIN dim_map)
    IN [p \in DOMAIN kept |-> dim_map[kept[p]]]

\* ExecutionPlan::fast_path
FastPathPlan(fp, output_shape, flops) ==
    [steps |-> <<[kind |-> "FastPath", fast_path |-> fp]>>,
     total_flops |-> flops,
     output_shape |-> output_shape,
     uses_fast_path |-> TRUE,
     input_indices |-> <<>>]

\* A plan builder that keeps only the first step of the path.
FirstStepOnly(p, output_shape, input_indices) ==
    [steps |-> [q \in DOMAIN p.steps \cap {1} |->
                  [kind |-> "Contraction",
                   inputs |-> p.steps[q].inputs,
                   contracted |-> p.steps[q].contracted_indices,
                   result |-> p.steps[q].result_indices,
                   flops |-> p.steps[q].estimated_flops,
                   lhs |-> p.steps[q].lhs,
                   rhs |-> p.steps[q].rhs]],
     total_flops |-> p.total_flops,
     output_shape |-> output_shape,
     uses_fast_path |-> FALSE,
     input_indices |-> input_indices]

\* ExecutionPlan::from_contraction_path.  A step keeps the history fields lhs
\* and rhs of the path step it is made from.
from_contraction_path(p, output_shape, input_indices) ==
    [steps |-> [q \in DOMAIN p.steps |->
                  [kind |-> "Contraction",
                   inputs |-> p.steps[q].inputs,
                   contracted |-> p.steps[q].contracted_indices,
                   result |-> p.steps[q].result_indices,
                   flops |-> p.steps[q].estimated_flops,
                   lhs |-> p.steps[q].lhs,
                   rhs |-> p.steps[q].rhs]],
     total_flops |-> p.total_flops,
     output_shape |-> output_shape,
     uses_fast_path |-> FALSE,
     input_indices |-> input_indices]

\* The match on the strategy in create_plan.
SearchPath(n, shps, strategy) ==
    CASE strategy = "Greedy" -> Call("greedy_path", <<n, shps, DefaultAlpha>>)
      [] strategy = "Optimal" ->
            IF num_inputs(n) <= MAX_DP_TENSORS THEN Call("optimal_path", <<n, shps, DefaultAlpha>>)
            ELSE Call("greedy_path", <<n, shps, DefaultAlpha>>)
      [] strategy = "BranchBound" ->
            IF num_inputs(n) <= MAX_BB_TENSORS THEN Call("branch_bound_path", <<n, shps, DefaultAlpha>>)
            ELSE Call("greedy_path", <<n, shps, DefaultAlpha>>)
      [] strategy = "Auto" ->
            IF num_inputs(n) <= AUTO_DP_TENSORS THEN Call("optimal_path", <<n, shps, DefaultAlpha>>)
            ELSE IF num_inputs(n) <= MAX_BB_TENSORS THEN Call("branch_bound_path", <<n, shps, DefaultAlpha>>)
            ELSE Call("greedy_path", <<n, shps, DefaultAlpha>>)

\* The general branch of create_plan: no pattern matching.
general_plan(n, shps, strategy) ==
    LET p == Call("SearchPath", <<n, shps, strategy>>)
    IN IF IsPanic(p) THEN p
       ELSE Call("from_contraction_path", <<p, Call("plan_compute_output_shape", <<n, shps>>), InitialIndices(n)>>)

create_plan(n, shps, strategy) ==
    LET fp == Call("recognize_pattern", <<n>>)
    IN IF fp.some
       THEN FastPathPlan(fp.val, Call("plan_compute_output_shape", <<n, shps>>),
                         Call("estimate_fast_path_flops", <<fp.val, shps>>))
       ELSE Call("general_plan", <<n, shps, strategy>>)

num_steps(p) == Len(p.steps)

-----------------------------------------------------------------------------
(* The device: buffers, tensor handles and the two delegated backends. *)

\* Device memory.  bufs holds the buffers, each a sequence of elements.  junk
\* is the value that storage nobody wrote, or a read outside a buffer, yields.
\* strict tells how a backend treats a call outside its contract: it rejects
\* the call, or it runs it and leaves unspecified values in the output.
\* launches lists what the call has issued so far: the elementary kernels,
\* the GEMM calls and the reduce calls, in order.
\* hash_order is the order in which this run's HashSets iterate.
\* reduces lists the arguments of the reduce calls issued so far.
Memory(bufs, junk, strict, hash_order) ==
    [bufs |-> bufs, junk |-> junk, strict |-> strict, hash_order |-> hash_order,
     launches |-> <<>>, reduces |-> <<>>]

\* A kernel launch, a GEMM call or a reduce call is issued.
Launch(mem, kernel) == [mem EXCEPT !.launches = Append(@, kernel)]

\* cubek_reduce::reduce(client, input, out, axis, ..) is called.
LaunchReduce(mem, input, out, axis) ==
    [Launch(mem, "reduce") EXCEPT
       !.reduces = Append(@, [input |-> input, out |-> out, axis |-> axis])]

\* TensorHandle: a buffer with a shape and strides in elements.
TensorHandle(buf, shape, strides) == [buf |-> buf, shape |-> shape, strides |-> strides]

\* What a launch leaves behind: the memory, the output handle and the result.
Done(mem, out, res) == [mem |-> mem, output |-> out, res |-> res]

compute_strides(shape) ==
    [p \in DOMAIN shape |-> Product(SubSeq(shape, p + 1, Len(shape)))]

\* TensorHandle::zeros and TensorHandle::empty: a new contiguous buffer.
Allocate(mem, shape, fill) ==
    [mem |-> [mem EXCEPT !.bufs = Append(@, [p \in 1..Product(shape) |-> fill])],
     handle |-> TensorHandle(Len(mem.bufs) + 1, shape, compute_strides(shape))]

zeros(mem, shape) == Allocate(mem, shape, 0)

empty(mem, shape) == Allocate(mem, shape, mem.junk)

\* The element at linear position pos (0-based) of the buffer of h, as a
\* kernel reads it: tensor[pos].
Load(mem, h, pos) ==
    LET b == mem.bufs[h.buf]
    IN IF pos + 1 \in DOMAIN b THEN b[pos + 1] ELSE mem.junk

\* A kernel's writes output[pos] = vals[pos + 1] for the positions of vals.
\* Every launch checks the output's element count first and every handle of
\* the model owns as many elements as its shape, so the writes are in bounds.
Store(mem, h, vals) ==
    [mem EXCEPT !.bufs[h.buf] = [p \in DOMAIN @ |-> IF p \in DOMAIN vals THEN vals[p] ELSE @[p]]]

\* Row-major coordinates (0-based) of the logical position pos of a shape.
Unravel(pos, shape) ==
    LET strides == compute_strides(shape)
    IN [p \in DOMAIN shape |-> (pos \div strides[p]) % shape[p]]

Offset(coord, strides) == SumSeq([p \in DOMAIN coord |-> coord[p] * strides[p]])

\* The tensor a handle denotes: its elements in row-major logical order.
TensorOf(mem, h) ==
    [p \in 1..Product(h.shape) |-> Load(mem, h, Offset(Unravel(p - 1, h.shape), h.strides))]

\* Every element of the view lies in its buffer.
Fits(mem, h) ==
    /\ Len(h.strides) = Len(h.shape)
    /\ \A p \in 1..Product(h.shape) :
          Offset(Unravel(p - 1, h.shape), h.strides) + 1 \in DOMAIN mem.bufs[h.buf]

\* A backend's writes through the strides of its output view: logical
\* position q of the view receives vals[q].
Scatter(mem, h, vals) ==
    LET at(q) == Offset(Unravel(q - 1, h.shape), h.strides) + 1
    IN [mem EXCEPT !.bufs[h.buf] =
          [p \in DOMAIN @ |->
             IF \E q \in DOMAIN vals : at(q) = p
             THEN vals[SetMax({q \in DOMAIN vals : at(q) = p})]
             ELSE @[p]]]

\* A backend called outside its contract: an error, or unspecified output.
Unspecified(mem, out) ==
    IF mem.strict THEN Done(mem, out, Err("LaunchError"))
    ELSE Done([mem EXCEPT !.bufs[out.buf] = [p \in DOMAIN @ |-> mem.junk]], out, Ok(TRUE))

\* The GEMM backend's contract: row-major views [B..., M, K], [B..., K, N]
\* and [B..., M, N] with the batch dimensions as leading axes.
GemmContract(mem, lhs, rhs, out) ==
    LET r == Len(out.shape)
    IN /\ r >= 2 /\ Len(lhs.shape) = r /\ Len(rhs.shape) = r
       /\ SubSeq(lhs.shape, 1, r - 2) = SubSeq(out.shape, 1, r - 2)
       /\ SubSeq(rhs.shape, 1, r - 2) = SubSeq(out.shape, 1, r - 2)
       /\ lhs.shape[r] = rhs.shape[r - 1]
       /\ out.shape[r - 1] = lhs.shape[r - 1]
       /\ out.shape[r] = rhs.shape[r]
       /\ Fits(mem, lhs) /\ Fits(mem, rhs) /\ Fits(mem, out)

\* A GEMM that uses its left operand as scratch space.
GemmClobberingLhs(mem, lhs, rhs, out) ==
    Done([Launch(mem, "gemm") EXCEPT !.bufs[lhs.buf] = [p \in DOMAIN @ |-> @[p] + 1]],
         out, Ok(TRUE))

\* cubek_matmul launch: out[b..., m, n] = sum over k of lhs[b..., m, k] * rhs[b..., k, n],
\* read and written through the strides of the three views.
matmul_launch(mem, lhs, rhs, out) ==
    IF ~ GemmContract(mem, lhs, rhs, out) THEN Unspecified(Launch(mem, "gemm"), out)
    ELSE LET r == Len(out.shape)
             term(c, k) == Load(mem, lhs, Offset([c EXCEPT ![r] = k], lhs.strides))
                           * Load(mem, rhs, Offset([c EXCEPT ![r - 1] = k], rhs.strides))
             vals == [q \in 1..Product(out.shape) |->
                        SumSeq([k \in 1..lhs.shape[r] |->
                                  term(Unravel(q - 1, out.shape), k - 1)])]
         IN Done(Scatter(Launch(mem, "gemm"), out, vals), out, Ok(TRUE))

\* The reduce backend's contract: the output keeps the reduced axis with size 1.
ReduceContract(mem, input, out, axis) ==
    /\ axis < Len(input.shape)
    /\ out.shape = [input.shape EXCEPT ![axis + 1] = 1]
    /\ Fits(mem, input) /\ Fits(mem, out)

\* cubek_reduce reduce with the Sum operation.
reduce(mem, input, out, axis) ==
    IF ~ ReduceContract(mem, input, out, axis)
    THEN Unspecified(LaunchReduce(mem, input, out, axis), out)
    ELSE LET term(c, a) == Load(mem, input, Offset([c EXCEPT ![axis + 1] = a], input.strides))
             vals == [q \in 1..Product(out.shape) |->
                        SumSeq([a \in 1..input.shape[axis + 1] |->
                                  term(Unravel(q - 1, out.shape), a - 1)])]
         IN Done(Scatter(LaunchReduce(mem, input, out, axis), out, vals), out, Ok(TRUE))

-----------------------------------------------------------------------------
(* kernels/*.rs: a kernel indexes the buffers linearly. *)

launch_hadamard(mem, lhs, rhs, output) ==
    IF lhs.shape # rhs.shape THEN Done(mem, output, Err("LaunchError"))
    ELSE IF lhs.shape # output.shape THEN Done(mem, output, Err("LaunchError"))
    ELSE IF Product(lhs.shape) = 0 THEN Done(mem, output, Ok(TRUE))
    ELSE Done(Store(Launch(mem, "hadamard_kernel"), output,
                    [p \in 1..Product(lhs.shape) |->
                       Load(mem, lhs, p - 1) * Load(mem, rhs, p - 1)]),
              output, Ok(TRUE))

launch_outer_product(mem, lhs, rhs, output) ==
    LET lhs_size == Product(lhs.shape)
        rhs_size == Product(rhs.shape)
    IN IF lhs_size = 0 \/ rhs_size = 0 THEN Done(mem, output, Ok(TRUE))
       ELSE IF Product(output.shape) # lhs_size * rhs_size
       THEN Done(mem, output, Err("LaunchError"))
       ELSE Done(Store(Launch(mem, "outer_product_kernel"), output,
                       [p \in 1..(lhs_size * rhs_size) |->
                                       Load(mem, lhs, (p - 1) \div rhs_size)
                                       * Load(mem, rhs, (p - 1) % rhs_size)]),
                 output, Ok(TRUE))

\* The sum of the products over the linear positions; the block-wise passes
\* of larger inputs add up the same terms.
launch_dot_product(mem, lhs, rhs, output) ==
    IF lhs.shape # rhs.shape THEN Done(mem, output, Err("LaunchError"))
    ELSE IF Product(lhs.shape) = 0 THEN Done(mem, output, Ok(TRUE))
    ELSE IF Product(output.shape) # 1 THEN Done(mem, output, Err("LaunchError"))
    ELSE Done(Store(Launch(mem, "dot_product_kernel"), output,
                    <<SumSeq([p \in 1..Product(lhs.shape) |->
                                             Load(mem, lhs, p - 1) * Load(mem, rhs, p - 1)])>>),
              output, Ok(TRUE))

copy_reshape(mem, input, output) ==
    IF Product(input.shape) # Product(output.shape) THEN Done(mem, output, Err("ShapeError"))
    ELSE IF Product(input.shape) = 0 THEN Done(mem, output, Ok(TRUE))
    ELSE Done(Store(Launch(mem, "copy_kernel"), output,
                    [p \in 1..Product(input.shape) |-> Load(mem, input, p - 1)]),
              output, Ok(TRUE))

launch_diagonal(mem, input, output) ==
    LET ndim == Len(input.shape)
        n == input.shape[ndim - 1]
        batch_size == Product(SubSeq(input.shape, 1, ndim - 2))
        diag_stride == input.strides[ndim - 1] + input.strides[ndim]
        matrix_size == n * n
    IN IF ndim < 2 THEN Done(mem, output, Err("LaunchError"))
       ELSE IF input.shape[ndim - 1] # input.shape[ndim] THEN Done(mem, output, Err("LaunchError"))
       ELSE IF n = 0 THEN Done(mem, output, Ok(TRUE))
       ELSE IF Product(output.shape) # batch_size * n THEN Done(mem, output, Err("LaunchError"))
       ELSE Done(Store(Launch(mem, "diagonal_kernel"), output,
                       [p \in 1..(batch_size * n) |->
                                       Load(mem, input, ((p - 1) \div n) * matrix_size
                                                        + ((p - 1) % n) * diag_stride)]),
                 output, Ok(TRUE))

launch_trace(mem, input, output) ==
    LET ndim == Len(input.shape)
        n == input.shape[ndim - 1]
        batch_size == Product(SubSeq(input.shape, 1, ndim - 2))
        diagonal_shape == Append(SubSeq(input.shape, 1, ndim - 2), n)
    IN IF ndim < 2 THEN Done(mem, output, Err("LaunchError"))
       ELSE IF input.shape[ndim - 1] # input.shape[ndim] THEN Done(mem, output, Err("LaunchError"))
       ELSE IF n = 0 THEN Done(mem, output, Ok(TRUE))
       ELSE IF Product(output.shape) # batch_size THEN Done(mem, output, Err("LaunchError"))
       ELSE LET w == zeros(mem, diagonal_shape)
                d == Call("launch_diagonal", <<w.mem, input, w.handle>>)
            IN IF ~ d.res.ok THEN Done(d.mem, output, d.res)
               ELSE Call("reduce", <<d.mem, w.handle, output, Len(diagonal_shape) - 1>>)

\* copy_broadcast_1d/2d/3d: out[coord] = in[coord . strides of in].
materialize_tensor(mem, input, target_shape) ==
    LET r == zeros(mem, target_shape)
        num_elements == Product(target_shape)
    IN IF num_elements = 0 THEN [mem |-> r.mem, handle |-> r.handle, res |-> Ok(TRUE)]
       ELSE IF Len(target_shape) \notin 1..3
       THEN [mem |-> r.mem, handle |-> r.handle, res |-> Err("LaunchError")]
       ELSE [mem |-> Store(Launch(r.mem, "copy_broadcast_kernel"), r.handle,
                           [p \in 1..num_elements |->
                              Load(r.mem, input, Offset(Unravel(p - 1, target_shape),
                                                        input.strides))]),
             handle |-> r.handle, res |-> Ok(TRUE)]

materialize_and_multiply(mem, lhs, rhs, output) ==
    LET l == IF \E p \in DOMAIN lhs.strides : lhs.strides[p] = 0
             THEN Call("materialize_tensor", <<mem, lhs, output.shape>>)
             ELSE [mem |-> mem, handle |-> lhs, res |-> Ok(TRUE)]
        r == IF \E p \in DOMAIN rhs.strides : rhs.strides[p] = 0
             THEN Call("materialize_tensor", <<l.mem, rhs, output.shape>>)
             ELSE [mem |-> l.mem, handle |-> rhs, res |-> Ok(TRUE)]
    IN IF ~ l.res.ok THEN Done(l.mem, output, l.res)
       ELSE IF ~ r.res.ok THEN Done(r.mem, output, r.res)
       ELSE Call("launch_hadamard", <<r.mem, l.handle, r.handle, output>>)

\* broadcast_multiply_1d/2d: out[idx] = lhs[coord . lhs strides] * rhs[coord . rhs strides]
\* with coord the coordinates of idx in the output shape.
launch_broadcast_multiply(mem, lhs, rhs, output) ==
    LET rank == Len(output.shape)
        num_elements == Product(output.shape)
    IN IF Len(lhs.shape) # rank \/ Len(rhs.shape) # rank THEN Done(mem, output, Err("LaunchError"))
       ELSE IF num_elements = 0 THEN Done(mem, output, Ok(TRUE))
       ELSE IF rank \in 1..2
       THEN Done(Store(Launch(mem, "broadcast_multiply_kernel"), output,
                       [p \in 1..num_elements |->
                          Load(mem, lhs, Offset(Unravel(p - 1, output.shape), lhs.strides))
                          * Load(mem, rhs, Offset(Unravel(p - 1, output.shape), rhs.strides))]),
                 output, Ok(TRUE))
       ELSE Call("materialize_and_multiply", <<mem, lhs, rhs, output>>)

-----------------------------------------------------------------------------
(* launch/executor.rs: the fast paths. *)

\* A panic inside the executor aborts the call: recorded as the result
\* "Panic", which is no value that einsum returns.
Panicked(mem, output) == Done(mem, output, Err("Panic"))

\* Every 0-based position of positions indexes s.
Indexable(s, positions) == \A p \in DOMAIN positions : positions[p] < Len(s)

\* shape.swap(ndim - 2, ndim - 1) when ndim >= 2.
SwapLastTwo(s) ==
    IF Len(s) >= 2
    THEN [s EXCEPT ![Len(s) - 1] = s[Len(s)], ![Len(s)] = s[Len(s) - 1]]
    ELSE s

\* The operand view of execute_matmul: last two axes swapped when the flag is set.
TransposedView(h, transpose) ==
    IF transpose
    THEN [h EXCEPT !.shape = SwapLastTwo(@), !.strides = SwapLastTwo(@)]
    ELSE h

execute_matmul(mem, inputs, output, transpose_a, transpose_b, batch_dims) ==
    IF Len(inputs) < 2 THEN Done(mem, output, Err("Unsupported"))
    ELSE Call("matmul_launch", <<mem, TransposedView(inputs[1], transpose_a),
                       TransposedView(inputs[2], transpose_b), output>>)

\* output.handle = intermediate.handle; output.strides = compute_strides(&output.shape)
Rebind(output, intermediate) ==
    [output EXCEPT !.buf = intermediate.buf, !.strides = compute_strides(output.shape)]

RECURSIVE MultiAxisFrom(_, _, _, _, _)
\* The loop of execute_multi_axis_reduce from the q-th sorted axis on.
MultiAxisFrom(mem, current, output, sorted_axes, q) ==
    IF q > Len(sorted_axes) THEN Done(mem, output, Ok(TRUE))
    ELSE IF sorted_axes[q] >= Len(current.shape) THEN Panicked(mem, output)
    ELSE LET axis == sorted_axes[q]
             keep_dim_shape == [current.shape EXCEPT ![axis + 1] = 1]
             w == zeros(mem, keep_dim_shape)
             direct == Call("reduce", <<mem, current, output, axis>>)
             r == Call("reduce", <<w.mem, current, w.handle, axis>>)
         IN IF q = Len(sorted_axes) /\ output.shape = keep_dim_shape THEN direct
            ELSE IF ~ r.res.ok THEN Done(r.mem, output, r.res)
            ELSE IF q = Len(sorted_axes) THEN Done(r.mem, Rebind(output, w.handle), Ok(TRUE))
            ELSE MultiAxisFrom(r.mem, w.handle, output, sorted_axes, q + 1)

\* The loop of execute_multi_axis_reduce over the axes in ascending order.
AscendingAxisReduce(mem, input, output, axes) ==
    MultiAxisFrom(mem, input, output, SortedSeq(Range(axes)), 1)

execute_multi_axis_reduce(mem, input, output, axes) ==
    MultiAxisFrom(mem, input, output, Reverse(SortedSeq(Range(axes))), 1)

execute_reduce(mem, inputs, output, axes) ==
    IF inputs = <<>> THEN Done(mem, output, Err("Unsupported"))
    ELSE IF Len(axes) > 1 THEN Call("execute_multi_axis_reduce", <<mem, inputs[1], output, axes>>)
    ELSE IF axes = <<>> THEN Done(mem, output, Err("Unsupported"))
    ELSE IF axes[1] >= Len(inputs[1].shape) THEN Panicked(mem, output)
    ELSE LET input == inputs[1]
             axis == axes[1]
             keep_dim_shape == [input.shape EXCEPT ![axis + 1] = 1]
             w == zeros(mem, keep_dim_shape)
             r == Call("reduce", <<w.mem, input, w.handle, axis>>)
         IN IF output.shape = keep_dim_shape THEN Call("reduce", <<mem, input, output, axis>>)
            ELSE IF ~ r.res.ok THEN Done(r.mem, output, r.res)
            ELSE Done(r.mem, Rebind(output, w.handle), Ok(TRUE))

\* View of h with its axes taken in the order of perm.
PermutedView(h, perm) ==
    [h EXCEPT !.shape = [p \in DOMAIN perm |-> h.shape[perm[p] + 1]],
              !.strides = [p \in DOMAIN perm |-> h.strides[perm[p] + 1]]]

\* Only the output's shape and strides are rewritten; its buffer is kept.
execute_transpose(mem, inputs, output, permutation) ==
    IF inputs = <<>> THEN Done(mem, output, Err("Unsupported"))
    ELSE IF ~ Indexable(inputs[1].shape, permutation) THEN Panicked(mem, output)
    ELSE LET v == PermutedView(inputs[1], permutation)
         IN Done(mem, [output EXCEPT !.shape = v.shape, !.strides = v.strides], Ok(TRUE))

execute_hadamard(mem, inputs, output) ==
    IF Len(inputs) < 2 THEN Done(mem, output, Err("Unsupported"))
    ELSE Call("launch_hadamard", <<mem, inputs[1], inputs[2], output>>)

execute_outer_product(mem, inputs, output) ==
    IF Len(inputs) < 2 THEN Done(mem, output, Err("Unsupported"))
    ELSE Call("launch_outer_product", <<mem, inputs[1], inputs[2], output>>)

execute_dot_product(mem, inputs, output) ==
    IF Len(inputs) < 2 THEN Done(mem, output, Err("Unsupported"))
    ELSE Call("launch_dot_product", <<mem, inputs[1], inputs[2], output>>)

execute_trace(mem, inputs, output) ==
    IF inputs = <<>> THEN Done(mem, output, Err("Unsupported"))
    ELSE Call("launch_trace", <<mem, inputs[1], output>>)

execute_diagonal(mem, inputs, output) ==
    IF inputs = <<>> THEN Done(mem, output, Err("Unsupported"))
    ELSE Call("launch_diagonal", <<mem, inputs[1], output>>)

execute_fast_path(mem, fast_path, inputs, output) ==
    CASE fast_path.kind = "Matmul" ->
            Call("execute_matmul", <<mem, inputs, output, fast_path.transpose_a, fast_path.transpose_b, <<>>>>)
      [] fast_path.kind = "BatchedMatmul" ->
            Call("execute_matmul", <<mem, inputs, output, fast_path.transpose_a, fast_path.transpose_b,
                           fast_path.batch_dims>>)
      [] fast_path.kind = "Reduce" -> Call("execute_reduce", <<mem, inputs, output, fast_path.axes>>)
      [] fast_path.kind = "Transpose" ->
            Call("execute_transpose", <<mem, inputs, output, fast_path.permutation>>)
      [] fast_path.kind = "Hadamard" -> Call("execute_hadamard", <<mem, inputs, output>>)
      [] fast_path.kind = "OuterProduct" -> Call("execute_outer_product", <<mem, inputs, output>>)
      [] fast_path.kind = "DotProduct" -> Call("execute_dot_product", <<mem, inputs, output>>)
      [] fast_path.kind = "Trace" -> Call("execute_trace", <<mem, inputs, output>>)
      [] fast_path.kind = "DiagonalExtract" -> Call("execute_diagonal", <<mem, inputs, output>>)

-----------------------------------------------------------------------------
(* launch/executor.rs: the general contraction. *)

\* The view of own that spans the axes of the larger operand: an axis the
\* smaller operand lacks gets the other's size and stride 0.
BroadcastView(own, own_indices, other, other_indices) ==
    [own EXCEPT
       !.shape = [p \in DOMAIN other_indices |->
                    IF Contains(own_indices, other_indices[p])
                    THEN own.shape[Position(own_indices, other_indices[p]).val + 1]
                    ELSE other.shape[p]],
       !.strides = [p \in DOMAIN other_indices |->
                      IF Contains(own_indices, other_indices[p])
                      THEN own.strides[Position(own_indices, other_indices[p]).val + 1]
                      ELSE 0]]

\* The indexing of the two shapes in BroadcastView stays in range.
BroadcastIndexable(own, own_indices, other, other_indices) ==
    \A p \in DOMAIN other_indices :
        IF Contains(own_indices, other_indices[p])
        THEN Position(own_indices, other_indices[p]).val < Len(own.shape)
        ELSE p <= Len(other.shape)

execute_broadcast_multiply(mem, lhs, rhs, output, lhs_indices, rhs_indices) ==
    LET lhs_rank == Len(lhs_indices)
        rhs_rank == Len(rhs_indices)
    IN IF lhs_indices = rhs_indices /\ lhs.shape = rhs.shape
       THEN Call("launch_hadamard", <<mem, lhs, rhs, output>>)
       ELSE IF rhs_rank < lhs_rank /\ \A p \in DOMAIN rhs_indices : Contains(lhs_indices, rhs_indices[p])
       THEN IF ~ BroadcastIndexable(rhs, rhs_indices, lhs, lhs_indices) THEN Panicked(mem, output)
            ELSE Call("launch_broadcast_multiply", <<mem, lhs,
                                           BroadcastView(rhs, rhs_indices, lhs, lhs_indices), output>>)
       ELSE IF lhs_rank < rhs_rank /\ \A p \in DOMAIN lhs_indices : Contains(rhs_indices, lhs_indices[p])
       THEN IF ~ BroadcastIndexable(lhs, lhs_indices, rhs, rhs_indices) THEN Panicked(mem, output)
            ELSE Call("launch_broadcast_multiply", <<mem, BroadcastView(lhs, lhs_indices, rhs, rhs_indices),
                                           rhs, output>>)
       ELSE Done(mem, output, Err("Unsupported"))

\* The dimension map of two index lists zipped with their shapes.
PairDimMap(lhs, rhs, lhs_indices, rhs_indices) ==
    ZipInsert(ZipInsert(<<>>, lhs_indices, lhs.shape), rhs_indices, rhs.shape)

compute_contraction_shape_with_indices(lhs, rhs, lhs_indices, rhs_indices, result_indices) ==
    LET dim_map == PairDimMap(lhs, rhs, lhs_indices, rhs_indices)
        kept == SelectSeq(result_indices, LAMBDA c : c \in DOMAIN dim_map)
    IN [p \in DOMAIN kept |-> dim_map[kept[p]]]

is_identity_permutation(perm) == \A p \in DOMAIN perm : perm[p] = p - 1

\* 0-based positions of the indices that satisfy keep, in order.
PositionsWhere(indices, keep) ==
    LET ps == SelectSeq([p \in DOMAIN indices |-> p], LAMBDA p : indices[p] \in keep)
    IN [q \in DOMAIN ps |-> ps[q] - 1]

\* The 0-based positions in s of the characters of chars that occur in s, the
\* last occurrence of each: a HashMap collected from (char, position) pairs.
LastPositionsOf(chars, s) ==
    LET found == SelectSeq(chars, LAMBDA c : Contains(s, c))
    IN [p \in DOMAIN found |-> SetMax({q \in DOMAIN s : s[q] = found[p]}) - 1]

\* let lhs_reshaped = if .. else if .. else ..: the operand brought to the
\* target shape by a copy, a permuted view, a reshaped view or as it is.
ReshapedOperand(mem, t, perm, target_shape) ==
    LET needs_transpose == ~ is_identity_permutation(perm)
        needs_reshape == Len(perm) # Len(target_shape)
        e == empty(mem, target_shape)
        c == Call("copy_reshape", <<e.mem, PermutedView(t, perm), e.handle>>)
    IN IF needs_transpose /\ needs_reshape
       THEN [mem |-> c.mem, handle |-> e.handle, res |-> c.res]
       ELSE IF needs_transpose
       THEN [mem |-> mem, handle |-> PermutedView(t, perm), res |-> Ok(TRUE)]
       ELSE IF needs_reshape
       THEN [mem |-> mem,
             handle |-> [t EXCEPT !.shape = target_shape, !.strides = compute_strides(target_shape)],
             res |-> Ok(TRUE)]
       ELSE [mem |-> mem, handle |-> t, res |-> Ok(TRUE)]

\* The elements of a HashSet in the order it iterates, which is unspecified:
\* ascending or descending, as the run has it.
HashSetOrder(S, hash_order) ==
    IF hash_order = "ascending" THEN SortedSeq(S) ELSE Reverse(SortedSeq(S))

\* The first part of execute_general_contraction_with_indices: the batch
\* indices, the two permutations and the two target shapes.
ContractionLayout(hash_order, lhs, rhs, lhs_indices, rhs_indices, contracted) ==
    LET dim_map == PairDimMap(lhs, rhs, lhs_indices, rhs_indices)
        contracted_set == Range(contracted)
        batch_set == (Range(lhs_indices) \cap Range(rhs_indices)) \ contracted_set
        batch_indices == HashSetOrder(batch_set, hash_order)
        free_l == Range(lhs_indices) \ (contracted_set \cup batch_set)
        free_r == Range(rhs_indices) \ (contracted_set \cup batch_set)
        lhs_batch == PositionsWhere(lhs_indices, batch_set)
        lhs_m == PositionsWhere(lhs_indices, free_l)
        lhs_contracted == PositionsWhere(lhs_indices, contracted_set)
        rhs_batch == PositionsWhere(rhs_indices, batch_set)
        lhs_contracted_chars == SelectSeq(lhs_indices, LAMBDA c : c \in contracted_set)
        rhs_contracted == LastPositionsOf(lhs_contracted_chars, rhs_indices)
        rhs_n == PositionsWhere(rhs_indices, free_r)
        batch_shape == [p \in DOMAIN batch_indices |-> dim_map[batch_indices[p]]]
        m == MaxOf(Product([p \in DOMAIN lhs_m |-> lhs.shape[lhs_m[p] + 1]]), 1)
        k == MaxOf(Product([p \in DOMAIN lhs_contracted |-> lhs.shape[lhs_contracted[p] + 1]]), 1)
        n == MaxOf(Product([p \in DOMAIN rhs_n |-> rhs.shape[rhs_n[p] + 1]]), 1)
    IN [batch_indices |-> batch_indices,
        lhs_perm |-> lhs_batch \o lhs_m \o lhs_contracted,
        rhs_perm |-> rhs_batch \o rhs_contracted \o rhs_n,
        lhs_target_shape |-> batch_shape \o <<m, k>>,
        rhs_target_shape |-> batch_shape \o <<k, n>>]

\* The positions the layout reads of the two shapes exist.
LayoutIndexable(lhs, rhs, lhs_indices, rhs_indices, contracted) ==
    LET contracted_set == Range(contracted)
        batch_set == (Range(lhs_indices) \cap Range(rhs_indices)) \ contracted_set
        lay == Call("ContractionLayout", <<"ascending", lhs, rhs, lhs_indices, rhs_indices, contracted>>)
    IN /\ Indexable(lhs.shape, PositionsWhere(lhs_indices, Range(lhs_indices) \ batch_set))
       /\ Indexable(rhs.shape, PositionsWhere(rhs_indices,
                                              Range(rhs_indices) \ (contracted_set \cup batch_set)))
       /\ (~ is_identity_permutation(lay.lhs_perm) => Indexable(lhs.shape, lay.lhs_perm))
       /\ (~ is_identity_permutation(lay.rhs_perm) => Indexable(rhs.shape, lay.rhs_perm))

execute_general_contraction_with_indices(mem, lhs, rhs, output, lhs_indices, rhs_indices, contracted) ==
    LET lay == Call("ContractionLayout", <<mem.hash_order, lhs, rhs, lhs_indices, rhs_indices, contracted>>)
        lhs_perm == lay.lhs_perm
        rhs_perm == lay.rhs_perm
        batch_shape == SubSeq(lay.lhs_target_shape, 1, Len(lay.lhs_target_shape) - 2)
        m == lay.lhs_target_shape[Len(lay.lhs_target_shape) - 1]
        k == lay.lhs_target_shape[Len(lay.lhs_target_shape)]
        n == lay.rhs_target_shape[Len(lay.rhs_target_shape)]
        l == Call("ReshapedOperand", <<mem, lhs, lhs_perm, batch_shape \o <<m, k>>>>)
        r == Call("ReshapedOperand", <<l.mem, rhs, rhs_perm, batch_shape \o <<k, n>>>>)
        needs_reshape == Len(output.shape) < 2
        output_for_matmul ==
            IF needs_reshape
            THEN [output EXCEPT !.shape = batch_shape \o <<m, n>>,
                                !.strides = compute_strides(batch_shape \o <<m, n>>)]
            ELSE output
        g == Call("matmul_launch", <<r.mem, l.handle, r.handle, output_for_matmul>>)
    IN IF contracted = <<>>
       THEN Call("execute_broadcast_multiply", <<mem, lhs, rhs, output, lhs_indices, rhs_indices>>)
       ELSE IF ~ Call("LayoutIndexable", <<lhs, rhs, lhs_indices, rhs_indices, contracted>>)
       THEN Panicked(mem, output)
       ELSE IF ~ l.res.ok THEN Done(l.mem, output, l.res)
       ELSE IF ~ r.res.ok THEN Done(r.mem, output, r.res)
       ELSE IF ~ g.res.ok THEN Done(g.mem, output, g.res)
       ELSE Done(g.mem,
                 IF needs_reshape
                 THEN [output EXCEPT !.strides = compute_strides(output.shape)]
                 ELSE output,
                 Ok(TRUE))

TrackedTensor(tensor, indices) == [tensor |-> tensor, indices |-> indices]

infer_input_indices(input_idx, ndim) ==
    [p \in 1..ndim |-> IF input_idx * 4 + p <= 26 THEN 96 + input_idx * 4 + p ELSE 63]

\* What a contraction step hands to GEMM, if it gets that far: the layout and
\* the two views.
GemmCall(mem, lhs, rhs, contracted) ==
    IF contracted = <<>>
          \/ ~ Call("LayoutIndexable", <<lhs.tensor, rhs.tensor, lhs.indices, rhs.indices, contracted>>)
    THEN None
    ELSE LET lay == Call("ContractionLayout", <<mem.hash_order, lhs.tensor, rhs.tensor,
                                      lhs.indices, rhs.indices, contracted>>)
             l == Call("ReshapedOperand", <<mem, lhs.tensor, lay.lhs_perm, lay.lhs_target_shape>>)
             r == Call("ReshapedOperand", <<l.mem, rhs.tensor, lay.rhs_perm, lay.rhs_target_shape>>)
         IN IF ~ l.res.ok \/ ~ r.res.ok THEN None
            ELSE Some([layout |-> lay, lhs |-> l.handle, rhs |-> r.handle,
                       lhs_copied |-> l.handle.buf # lhs.tensor.buf,
                       rhs_copied |-> r.handle.buf # rhs.tensor.buf])

\* What a contraction step did, kept as history: the two operands and their
\* index lists, the step, the shape of its result list and the elements the
\* step left in the buffer it wrote.
StepRecord(mem, lhs, rhs, step, shape, after) ==
    [a |-> TensorOf(mem, lhs.tensor), a_shape |-> lhs.tensor.shape, a_indices |-> lhs.indices,
     b |-> TensorOf(mem, rhs.tensor), b_shape |-> rhs.tensor.shape, b_indices |-> rhs.indices,
     contracted |-> step.contracted, result |-> step.result, shape |-> shape,
     gemm |-> Call("GemmCall", <<mem, lhs, rhs, step.contracted>>),
     written |-> after.mem.bufs[after.output.buf],
     res |-> after.res]

RECURSIVE ContractionsFrom(_, _, _, _, _, _)
\* The loop of execute_contractions from the q-th step on.  create_plan builds
\* Contraction steps only.  log is the history of the steps run so far.
ContractionsFrom(mem, steps, q, tracked, output, log) ==
    IF q > Len(steps) THEN [mem |-> mem, output |-> output, res |-> Ok(TRUE), log |-> log]
    ELSE LET i == steps[q].inputs[1]
             j == steps[q].inputs[2]
             lhs == tracked[i + 1]
             rhs == tracked[j + 1]
             contraction_output_shape ==
                 compute_contraction_shape_with_indices(lhs.tensor, rhs.tensor, lhs.indices,
                                                        rhs.indices, steps[q].result)
             w == zeros(mem, contraction_output_shape)
             is_last == q = Len(steps)
             r == Call("execute_general_contraction_with_indices", <<
                      IF is_last THEN mem ELSE w.mem, lhs.tensor, rhs.tensor,
                      IF is_last THEN output ELSE w.handle,
                      lhs.indices, rhs.indices, steps[q].contracted>>)
             entry == Call("StepRecord", <<IF is_last THEN mem ELSE w.mem, lhs, rhs, steps[q],
                                 contraction_output_shape, r>>)
         IN IF i >= Len(tracked) \/ j >= Len(tracked)
            THEN [mem |-> mem, output |-> output, res |-> Err("LaunchError"), log |-> log]
            ELSE IF ~ r.res.ok
            THEN [mem |-> r.mem, output |-> IF is_last THEN r.output ELSE output,
                  res |-> r.res, log |-> Append(log, entry)]
            ELSE IF is_last
            THEN ContractionsFrom(r.mem, steps, q + 1, tracked, r.output, Append(log, entry))
            ELSE IF i = j /\ i = Len(tracked) - 1
            THEN [mem |-> r.mem, output |-> output, res |-> Err("Panic"), log |-> Append(log, entry)]
            ELSE ContractionsFrom(r.mem, steps, q + 1,
                                  Append(RemoveAt(RemoveAt(tracked, MaxOf(i, j)), MinOf(i, j)),
                                         TrackedTensor(r.output, steps[q].result)),
                                  output, Append(log, entry))

execute_contractions(mem, p, inputs, output) ==
    IF p.steps = <<>> THEN [mem |-> mem, output |-> output, res |-> Ok(TRUE), log |-> <<>>]
    ELSE ContractionsFrom(mem, p.steps, 1,
                          [t \in DOMAIN inputs |->
                             TrackedTensor(inputs[t],
                                           IF t <= Len(p.input_indices) THEN p.input_indices[t]
                                           ELSE infer_input_indices(t - 1, Len(inputs[t].shape)))],
                          output, <<>>)

execute_plan(mem, p, inputs, output) ==
    IF p.uses_fast_path
    THEN LET r == Call("execute_fast_path", <<mem, p.steps[1].fast_path, inputs, output>>)
         IN [mem |-> r.mem, output |-> r.output, res |-> r.res, log |-> <<>>]
    ELSE Call("execute_contractions", <<mem, p, inputs, output>>)

\* EinsumConfig: the fields the executor reads.
EinsumConfig(strategy, validate) == [strategy |-> strategy, validate_shapes |-> validate]

\* The body shared by einsum and einsum_with_notation after the notation is
\* validated: shapes, validate_shapes if enabled, the plan p, execute_plan.
PlanAndExecute(mem, n, inputs, output, config, p) ==
    LET vs == Call("validate_shapes", <<n, [t \in DOMAIN inputs |-> inputs[t].shape]>>)
    IN IF config.validate_shapes /\ ~ vs.ok
       THEN [mem |-> mem, output |-> output, res |-> vs, log |-> <<>>]
       ELSE IF IsPanic(p) THEN [mem |-> mem, output |-> output, res |-> Err("Panic"), log |-> <<>>]
       ELSE Call("execute_plan", <<mem, p, inputs, output>>)

einsum_with_notation(mem, n, inputs, output, config) ==
    Call("PlanAndExecute", <<mem, n, inputs, output, config,
                   Call("create_plan", <<n, [t \in DOMAIN inputs |-> inputs[t].shape], config.strategy>>)>>)

\* einsum from the parsed notation on.
einsum(mem, n, inputs, output, config) ==
    LET v == Call("validate_notation", <<n>>)
    IN IF ~ v.ok THEN [mem |-> mem, output |-> output, res |-> v, log |-> <<>>]
       ELSE Call("einsum_with_notation", <<mem, n, inputs, output, config>>)

-----------------------------------------------------------------------------
(* The dispatcher. *)

Call(f, a) ==
    CASE f = "validate_notation" -> validate_notation(a[1])
      [] f = "validate_shapes" -> validate_shapes(a[1], a[2])
      [] f = "recognize_pattern" -> recognize_pattern(a[1])
      [] f = "compute_pairwise_cost" -> compute_pairwise_cost(a[1], a[2], a[3], a[4], a[5], a[6])
      [] f = "optimistic_remaining_cost" -> optimistic_remaining_cost(a[1], a[2])
      [] f = "contract" -> contract(a[1], a[2], a[3], a[4])
      [] f = "evaluate_pair" -> evaluate_pair(a[1], a[2], a[3], a[4], a[5])
      [] f = "find_best_pair" -> find_best_pair(a[1], a[2], a[3])
      [] f = "greedy_path" -> greedy_path(a[1], a[2], a[3])
      [] f = "compute_contraction" -> compute_contraction(a[1], a[2], a[3], a[4], a[5], a[6])
      [] f = "build_contraction_path" -> build_contraction_path(a[1], a[2], a[3])
      [] f = "optimal_path" -> optimal_path(a[1], a[2], a[3])
      [] f = "generate_candidates" -> generate_candidates(a[1], a[2], a[3])
      [] f = "compute_path_cost" -> compute_path_cost(a[1], a[2], a[3], a[4])
      [] f = "greedy_remaining_steps" -> greedy_remaining_steps(a[1], a[2], a[3])
      [] f = "greedy_remaining_cost" -> greedy_remaining_cost(a[1], a[2], a[3])
      [] f = "RecordIfBetter" -> RecordIfBetter(a[1], a[2], a[3])
      [] f = "SearchWithLimits" -> SearchWithLimits(a[1], a[2], a[3], a[4], a[5])
      [] f = "branch_bound_path_with_limits" -> branch_bound_path_with_limits(a[1], a[2], a[3], a[4], a[5])
      [] f = "branch_bound_path" -> branch_bound_path(a[1], a[2], a[3])
      [] f = "estimate_fast_path_flops" -> estimate_fast_path_flops(a[1], a[2])
      [] f = "plan_compute_output_shape" -> plan_compute_output_shape(a[1], a[2])
      [] f = "from_contraction_path" -> from_contraction_path(a[1], a[2], a[3])
      [] f = "SearchPath" -> SearchPath(a[1], a[2], a[3])
      [] f = "general_plan" -> general_plan(a[1], a[2], a[3])
      [] f = "create_plan" -> create_plan(a[1], a[2], a[3])
      [] f = "matmul_launch" -> matmul_launch(a[1], a[2], a[3], a[4])
      [] f = "reduce" -> reduce(a[1], a[2], a[3], a[4])
      [] f = "launch_hadamard" -> launch_hadamard(a[1], a[2], a[3], a[4])
      [] f = "launch_outer_product" -> launch_outer_product(a[1], a[2], a[3], a[4])
      [] f = "launch_dot_product" -> launch_dot_product(a[1], a[2], a[3], a[4])
      [] f = "copy_reshape" -> copy_reshape(a[1], a[2], a[3])
      [] f = "launch_diagonal" -> launch_diagonal(a[1], a[2], a[3])
      [] f = "launch_trace" -> launch_trace(a[1], a[2], a[3])
      [] f = "materialize_tensor" -> materialize_tensor(a[1], a[2], a[3])
      [] f = "materialize_and_multiply" -> materialize_and_multiply(a[1], a[2], a[3], a[4])
      [] f = "launch_broadcast_multiply" -> launch_broadcast_multiply(a[1], a[2], a[3], a[4])
      [] f = "execute_matmul" -> execute_matmul(a[1], a[2], a[3], a[4], a[5], a[6])
      [] f = "execute_multi_axis_reduce" -> execute_multi_axis_reduce(a[1], a[2], a[3], a[4])
      [] f = "execute_reduce" -> execute_reduce(a[1], a[2], a[3], a[4])
      [] f = "execute_transpose" -> execute_transpose(a[1], a[2], a[3], a[4])
      [] f = "execute_hadamard" -> execute_hadamard(a[1], a[2], a[3])
      [] f = "execute_outer_product" -> execute_outer_product(a[1], a[2], a[3])
      [] f = "execute_dot_product" -> execute_dot_product(a[1], a[2], a[3])
      [] f = "execute_trace" -> execute_trace(a[1], a[2], a[3])
      [] f = "execute_diagonal" -> execute_diagonal(a[1], a[2], a[3])
      [] f = "execute_fast_path" -> execute_fast_path(a[1], a[2], a[3], a[4])
      [] f = "execute_broadcast_multiply" -> execute_broadcast_multiply(a[1], a[2], a[3], a[4], a[5], a[6])
      [] f = "ReshapedOperand" -> ReshapedOperand(a[1], a[2], a[3], a[4])
      [] f = "execute_general_contraction_with_indices" -> execute_general_contraction_with_indices(a[1], a[2], a[3], a[4], a[5], a[6], a[7])
      [] f = "execute_contractions" -> execute_contractions(a[1], a[2], a[3], a[4])
      [] f = "execute_plan" -> execute_plan(a[1], a[2], a[3], a[4])
      [] f = "PlanAndExecute" -> PlanAndExecute(a[1], a[2], a[3], a[4], a[5], a[6])
      [] f = "einsum_with_notation" -> einsum_with_notation(a[1], a[2], a[3], a[4], a[5])
      [] f = "einsum" -> einsum(a[1], a[2], a[3], a[4], a[5])
      [] f = "ContractionLayout" -> ContractionLayout(a[1], a[2], a[3], a[4], a[5], a[6])
      [] f = "LayoutIndexable" -> LayoutIndexable(a[1], a[2], a[3], a[4], a[5])
      [] f = "GemmCall" -> GemmCall(a[1], a[2], a[3], a[4])
      [] f = "StepRecord" -> StepRecord(a[1], a[2], a[3], a[4], a[5], a[6])

-----------------------------------------------------------------------------
(* The planner's entry points applied to a corpus of notations. *)

N1(a, out) == EinsumNotation(<<a>>, out)

N2(a, b, out) == EinsumNotation(<<a, b>>, out)

N3(a, b, c, out) == EinsumNotation(<<a, b, c>>, out)

N4(a, b, c, d, out) == EinsumNotation(<<a, b, c, d>>, out)

UnaryCorpus ==
    { N1(<<Chr.i, Chr.j>>, <<Chr.j, Chr.i>>),                    \* ij->ji
      N1(<<Chr.i, Chr.j>>, <<Chr.i, Chr.j>>),                    \* ij->ij
      N1(<<Chr.i, Chr.i>>, <<>>),                                \* ii->
      N1(<<Chr.i, Chr.i>>, <<Chr.i>>),                           \* ii->i
      N1(<<Chr.i, Chr.j>>, <<Chr.i>>),                           \* ij->i
      N1(<<Chr.i, Chr.j, Chr.i>>, <<Chr.j>>),                    \* iji->j
      N1(<<Ellipsis, Chr.i>>, <<Ellipsis>>) }                    \* ...i->...

BinaryCorpus ==
    { N2(<<Chr.i, Chr.j>>, <<Chr.j, Chr.k>>, <<Chr.i, Chr.k>>),  \* ij,jk->ik
      N2(<<Chr.j, Chr.i>>, <<Chr.k, Chr.j>>, <<Chr.i, Chr.k>>),  \* ji,kj->ik
      N2(<<Chr.b, Chr.i, Chr.j>>, <<Chr.b, Chr.j, Chr.k>>, <<Chr.b, Chr.i, Chr.k>>),
      N2(<<Chr.i, Chr.j>>, <<Chr.i, Chr.j>>, <<Chr.i, Chr.j>>),  \* ij,ij->ij
      N2(<<Chr.i>>, <<Chr.j>>, <<Chr.i, Chr.j>>),                \* i,j->ij
      N2(<<Chr.i>>, <<Chr.i>>, <<>>),                            \* i,i->
      N2(<<Chr.i, Chr.j>>, <<Chr.j, Chr.k>>, <<Chr.i>>),         \* ij,jk->i
      N2(<<Chr.i, Chr.j>>, <<Chr.j, Chr.k>>, <<Chr.i, Chr.j, Chr.k>>),
      N2(<<Ellipsis, Chr.i, Chr.j>>, <<Ellipsis, Chr.j, Chr.k>>, <<Ellipsis, Chr.i, Chr.k>>),
      N2(<<Ellipsis, Chr.i>>, <<Ellipsis, Chr.i>>, <<Ellipsis>>) }

\* ij,jk,kl->il
Chain3 == N3(<<Chr.i, Chr.j>>, <<Chr.j, Chr.k>>, <<Chr.k, Chr.l>>, <<Chr.i, Chr.l>>)

\* ij,jk,jl->ikl: j is shared by all three inputs.
Shared3 == N3(<<Chr.i, Chr.j>>, <<Chr.j, Chr.k>>, <<Chr.j, Chr.l>>, <<Chr.i, Chr.k, Chr.l>>)

ChainCorpus ==
    { Chain3,
      N3(<<Chr.i, Chr.j>>, <<Chr.k, Chr.l>>, <<Chr.j, Chr.k>>, <<Chr.i, Chr.l>>),
      Shared3,
      N3(<<Chr.i>>, <<Chr.j>>, <<Chr.i, Chr.j>>, <<>>),
      N4(<<Chr.i, Chr.j>>, <<Chr.j, Chr.k>>, <<Chr.k, Chr.l>>, <<Chr.l, Chr.m>>,
         <<Chr.i, Chr.m>>) }

Corpus == UnaryCorpus \cup BinaryCorpus \cup ChainCorpus

\* The shapes of test_optimal_skewed_chain.
SkewedShapes == <<<<2, 10>>, <<10, 1000>>, <<1000, 3>>>>

SharedShapes == <<<<1, 2>>, <<2, 1>>, <<2, 3>>>>

\* Every assignment of the sizes lo and MaxDim to the indices of n, the
\* ellipsis standing for w dimensions, as the list of input shapes it gives.
ShapesOfWidth(n, w, lo) ==
    LET batch == generate_batch_indices(w)
        expanded == [t \in DOMAIN n.inputs |-> named_indices(expand_ellipsis(n.inputs[t], batch))]
        chars == UNION {Range(expanded[t]) : t \in DOMAIN expanded}
    IN {[t \in DOMAIN expanded |-> [p \in DOMAIN expanded[t] |-> dims[expanded[t][p]]]] :
          dims \in [chars -> {lo, MaxDim}]}

ShapesOf(n) ==
    IF notation_has_ellipsis(n)
    THEN UNION {ShapesOfWidth(n, w, 1) : w \in 0..MaxEllipsis}
    ELSE ShapesOfWidth(n, 0, 1)

\* Notations given empty tensors: every index takes the size 0 or MaxDim.
EmptyCorpus ==
    { N2(<<Chr.i, Chr.j>>, <<Chr.j>>, <<Chr.i, Chr.j>>),
      N2(<<Chr.i, Chr.j>>, <<Chr.j, Chr.k>>, <<Chr.i, Chr.k>>),
      Chain3 }

EmptyCases == UNION {{<<n, shps>> : shps \in ShapesOfWidth(n, 0, 0)} : n \in EmptyCorpus}

\* Shapes of matching rank whose axes take the sizes 1 and MaxDim one by one,
\* so that axes carrying the same index may disagree; the ellipsis stands for
\* one dimension.
AxisShapes(n) ==
    LET expanded == [t \in DOMAIN n.inputs |->
                       named_indices(expand_ellipsis(n.inputs[t], generate_batch_indices(1)))]
    IN {shps \in [DOMAIN expanded -> UNION {[1..r -> {1, MaxDim}] : r \in 1..3}] :
          \A t \in DOMAIN expanded : Len(shps[t]) = Len(expanded[t])}

MismatchCorpus ==
    { N1(<<Chr.i, Chr.i>>, <<Chr.i>>),
      N1(<<Chr.i, Chr.j, Chr.i>>, <<Chr.j>>),
      N2(<<Chr.i, Chr.j>>, <<Chr.j, Chr.k>>, <<Chr.i, Chr.k>>),
      N2(<<Ellipsis, Chr.i>>, <<Ellipsis, Chr.i>>, <<Ellipsis>>),
      Chain3 }

\* ij,jk->ik with shapes [3,4],[5,6].
MismatchExample ==
    <<N2(<<Chr.i, Chr.j>>, <<Chr.j, Chr.k>>, <<Chr.i, Chr.k>>), <<<<3, 4>>, <<5, 6>>>>>>

\* ij,jk->i with shapes [10,20],[20,30].
ReductionExample ==
    <<N2(<<Chr.i, Chr.j>>, <<Chr.j, Chr.k>>, <<Chr.i>>), <<<<10, 20>>, <<20, 30>>>>>>

MismatchCases ==
    UNION {{<<n, shps>> : shps \in AxisShapes(n)} : n \in MismatchCorpus}
    \cup {MismatchExample}

\* ii,i-> with shapes [4,4],[4], and iij,j->j over the sizes 1 and MaxDim.
RepeatedIndexCases ==
    {<<N2(<<Chr.i, Chr.i>>, <<Chr.i>>, <<>>), <<<<4, 4>>, <<4>>>>>>}
    \cup {<<n, shps>> : n \in {N2(<<Chr.i, Chr.i, Chr.j>>, <<Chr.j>>, <<Chr.j>>)},
                        shps \in ShapesOfWidth(N2(<<Chr.i, Chr.i, Chr.j>>, <<Chr.j>>, <<Chr.j>>),
                                               0, 1)}

InputCases ==
    UNION {{<<n, shps>> : shps \in ShapesOf(n)} : n \in Corpus}
    \cup {<<Chain3, SkewedShapes>>, <<Shared3, SharedShapes>>}
    \cup EmptyCases
    \cup MismatchCases
    \cup {ReductionExample}
    \cup RepeatedIndexCases

Alphas == {0, CpuAlpha, DefaultAlpha}

NodeLimits == {1, 3, MAX_NODES}

DepthLimits == {0, 1, MAX_SEARCH_DEPTH}

Idle == [op |-> "idle"]

Init ==
    /\ \E c \in InputCases : notation = c[1] /\ shapes = c[2]
    /\ call = Idle
    /\ validation = None
    /\ plan = None
    /\ searched = None
    /\ tensors = None
    /\ device = <<>>
    /\ result = None
    /\ text = <<>>
    /\ parsed = None
    /\ shown = None
    /\ pool = None
    /\ grid = None

\* validate_notation then validate_shapes, as every caller of the planner does.
Validate ==
    /\ call = Idle
    /\ call' = [op |-> "validate_shapes"]
    /\ validation' = LET v == Call("validate_notation", <<notation>>)
                      IN Some(IF v.ok THEN Call("validate_shapes", <<notation, shapes>>) ELSE v)
    /\ UNCHANGED <<pool, grid, text, parsed, shown, notation, shapes, plan, searched, tensors, device, result>>

Validated == call.op = "validate_shapes" /\ validation.some /\ validation.val.ok

CreatePlan ==
    /\ Validated
    /\ \E strategy \in Strategies :
          /\ call' = [op |-> "create_plan", strategy |-> strategy]
          /\ plan' = Some(Call("create_plan", <<notation, shapes, strategy>>))
    /\ UNCHANGED <<pool, grid, text, parsed, shown, notation, shapes, validation, searched, tensors, device, result>>

GreedyPath ==
    /\ Validated
    /\ \E alpha \in Alphas :
          /\ call' = [op |-> "greedy_path", alpha |-> alpha]
          /\ searched' = Some(Call("greedy_path", <<notation, shapes, alpha>>))
    /\ UNCHANGED <<pool, grid, text, parsed, shown, notation, shapes, validation, plan, tensors, device, result>>

OptimalPath ==
    /\ Validated
    /\ \E alpha \in Alphas :
          /\ call' = [op |-> "optimal_path", alpha |-> alpha]
          /\ searched' = Some(Call("optimal_path", <<notation, shapes, alpha>>))
    /\ UNCHANGED <<pool, grid, text, parsed, shown, notation, shapes, validation, plan, tensors, device, result>>

BranchBoundPath ==
    /\ Validated
    /\ \E alpha \in Alphas :
          /\ call' = [op |-> "branch_bound_path", alpha |-> alpha]
          /\ searched' = Some(Call("branch_bound_path", <<notation, shapes, alpha>>))
    /\ UNCHANGED <<pool, grid, text, parsed, shown, notation, shapes, validation, plan, tensors, device, result>>

BranchBoundPathWithLimits ==
    /\ Validated
    /\ \E alpha \in Alphas, max_nodes \in NodeLimits, max_depth \in DepthLimits :
          /\ call' = [op |-> "branch_bound_path_with_limits", alpha |-> alpha,
                      max_nodes |-> max_nodes, max_depth |-> max_depth]
          /\ searched' = Some(Call("branch_bound_path_with_limits", <<notation, shapes, alpha,
                                                            max_nodes, max_depth>>))
    /\ UNCHANGED <<pool, grid, text, parsed, shown, notation, shapes, validation, plan, tensors, device, result>>

Next ==
    \/ Validate
    \/ CreatePlan
    \/ GreedyPath
    \/ OptimalPath
    \/ BranchBoundPath
    \/ BranchBoundPathWithLimits

Spec == Init /\ [][Next]_vars

-----------------------------------------------------------------------------
(* einsum applied to tensors on the device. *)

ExecUnary ==
    { N1(<<Chr.i, Chr.j>>, <<Chr.j, Chr.i>>),                    \* ij->ji
      N1(<<Chr.i, Chr.j, Chr.k>>, <<Chr.i, Chr.k, Chr.j>>),      \* ijk->ikj
      N1(<<Chr.i, Chr.j>>, <<Chr.i, Chr.j>>),                    \* ij->ij
      N1(<<Chr.i, Chr.i>>, <<>>),                                \* ii->
      N1(<<Chr.b, Chr.i, Chr.i>>, <<Chr.b>>),                    \* bii->b
      N1(<<Chr.i, Chr.i, Chr.b>>, <<Chr.b>>),                    \* iib->b
      N1(<<Chr.i, Chr.i>>, <<Chr.i>>),                           \* ii->i
      N1(<<Chr.i, Chr.b, Chr.i>>, <<Chr.b, Chr.i>>),             \* ibi->bi
      N1(<<Chr.i, Chr.j>>, <<Chr.i>>),                           \* ij->i
      N1(<<Chr.i, Chr.j>>, <<Chr.j>>),                           \* ij->j
      N1(<<Chr.i, Chr.j>>, <<>>),                                \* ij->
      N1(<<Chr.i, Chr.j, Chr.k>>, <<Chr.k, Chr.i>>),             \* ijk->ki
      N1(<<Chr.i, Chr.j, Chr.i>>, <<Chr.j>>),                    \* iji->j
      N1(<<Ellipsis, Chr.i>>, <<Ellipsis>>) }                    \* ...i->...

ExecMatmul ==
    { N2(<<Chr.i, Chr.j>>, <<Chr.j, Chr.k>>, <<Chr.i, Chr.k>>),  \* ij,jk->ik
      N2(<<Chr.j, Chr.i>>, <<Chr.j, Chr.k>>, <<Chr.i, Chr.k>>),  \* ji,jk->ik
      N2(<<Chr.i, Chr.j>>, <<Chr.k, Chr.j>>, <<Chr.i, Chr.k>>),  \* ij,kj->ik
      N2(<<Chr.i, Chr.j>>, <<Chr.j, Chr.k>>, <<Chr.k, Chr.i>>),  \* ij,jk->ki
      N2(<<Chr.b, Chr.i, Chr.j>>, <<Chr.b, Chr.j, Chr.k>>, <<Chr.b, Chr.i, Chr.k>>),
      N2(<<Chr.i, Chr.b, Chr.j>>, <<Chr.b, Chr.j, Chr.k>>, <<Chr.b, Chr.i, Chr.k>>),
      N2(<<Chr.b, Chr.i, Chr.j>>, <<Chr.b, Chr.j, Chr.k>>, <<Chr.i, Chr.b, Chr.k>>),
      N2(<<Ellipsis, Chr.i, Chr.j>>, <<Ellipsis, Chr.j, Chr.k>>, <<Ellipsis, Chr.i, Chr.k>>) }

ExecElementwise ==
    { N2(<<Chr.i, Chr.j>>, <<Chr.i, Chr.j>>, <<Chr.i, Chr.j>>),  \* ij,ij->ij
      N2(<<Chr.i, Chr.j>>, <<Chr.j, Chr.i>>, <<Chr.i, Chr.j>>),  \* ij,ji->ij
      N2(<<Chr.i, Chr.j>>, <<Chr.i, Chr.j>>, <<Chr.j, Chr.i>>),  \* ij,ij->ji
      N2(<<Chr.i>>, <<Chr.j>>, <<Chr.i, Chr.j>>),                \* i,j->ij
      N2(<<Chr.i>>, <<Chr.j>>, <<Chr.j, Chr.i>>),                \* i,j->ji
      N2(<<Chr.i>>, <<Chr.i>>, <<>>),                            \* i,i->
      N2(<<Chr.i, Chr.j>>, <<Chr.i, Chr.j>>, <<>>),              \* ij,ij->
      N2(<<Chr.i, Chr.j>>, <<Chr.j, Chr.i>>, <<>>) }             \* ij,ji->

ExecGeneral ==
    { N2(<<Chr.i, Chr.j>>, <<Chr.j, Chr.k>>, <<Chr.i>>),         \* ij,jk->i
      N2(<<Chr.i, Chr.j>>, <<Chr.j>>, <<Chr.i>>),                \* ij,j->i
      N2(<<Chr.i, Chr.j>>, <<Chr.j>>, <<Chr.i, Chr.j>>),         \* ij,j->ij
      N2(<<Chr.j>>, <<Chr.i, Chr.j>>, <<Chr.i, Chr.j>>),         \* j,ij->ij
      N2(<<Chr.i, Chr.b, Chr.j>>, <<Chr.b, Chr.j>>, <<Chr.i, Chr.b>>),
      N2(<<Chr.i, Chr.j, Chr.k>>, <<Chr.k, Chr.l>>, <<Chr.i, Chr.j, Chr.l>>),
      N2(<<Chr.k, Chr.i, Chr.j>>, <<Chr.k, Chr.l>>, <<Chr.i, Chr.j, Chr.l>>),
      Chain3,
      N3(<<Chr.i, Chr.j>>, <<Chr.k, Chr.l>>, <<Chr.j, Chr.k>>, <<Chr.i, Chr.l>>),
      Shared3,
      N3(<<Chr.i>>, <<Chr.j>>, <<Chr.i, Chr.j>>, <<>>) }

\* abi,bai->ab, whose two batch indices stand in different orders in the two
\* operands; jk,jkl->l, whose first operand has two contracted indices and
\* no free one; ij,ji,k->ijk, whose first step multiplies two operands with
\* the same indices in different orders.
ExecLayout ==
    { N2(<<Chr.a, Chr.b, Chr.i>>, <<Chr.b, Chr.a, Chr.i>>, <<Chr.a, Chr.b>>),
      N2(<<Chr.j, Chr.k>>, <<Chr.j, Chr.k, Chr.l>>, <<Chr.l>>),
      N3(<<Chr.i, Chr.j>>, <<Chr.j, Chr.i>>, <<Chr.k>>, <<Chr.i, Chr.j, Chr.k>>) }

ExecCorpus == ExecUnary \cup ExecMatmul \cup ExecElementwise \cup ExecGeneral \cup ExecLayout

\* The iteration orders to tell apart: they differ only where a step has two
\* batch indices.
HashOrders(n) ==
    IF n = N2(<<Chr.a, Chr.b, Chr.i>>, <<Chr.b, Chr.a, Chr.i>>, <<Chr.a, Chr.b>>)
    THEN {"ascending", "descending"} ELSE {"ascending"}

\* The size of every index in the square cases of the executor.
ExecDim == 2

\* The size assignments of the executor's cases: every index of size
\* ExecDim, sizes that differ from one index to the next, and empty tensors
\* (every other index of size 0).
ExecSizes == {"square", "mixed", "empty"}

SizeOf(c, sizes) ==
    IF sizes = "mixed" THEN ExecDim + (c % 2)
    ELSE IF sizes = "empty" THEN (IF c % 2 = 1 THEN 0 ELSE ExecDim)
    ELSE ExecDim

\* The input shapes of n under a size assignment; an ellipsis stands for one
\* dimension.
ExecShapes(n, sizes) ==
    LET batch == generate_batch_indices(1)
        expanded == [t \in DOMAIN n.inputs |-> named_indices(expand_ellipsis(n.inputs[t], batch))]
    IN [t \in DOMAIN expanded |-> [p \in DOMAIN expanded[t] |-> SizeOf(expanded[t][p], sizes)]]

\* The element the caller stored at linear position pos of input t.
InputValue(t, pos) == 3 * pos + t

\* The shapes a caller may give the output: the shape the validator computes,
\* its reverse, the flat shape and the shape with one more axis of size 1.
OutputShapes(n, shps) ==
    LET v == Call("validate_shapes", <<n, shps>>)
        s == IF v.ok THEN v.val.output_shape ELSE <<>>
    IN {s, Reverse(s), <<Product(s)>>, Append(s, 1)}

RECURSIVE Upload(_, _, _)
\* The caller's input tensors from the t-th on, contiguous on the device.
Upload(mem, shps, t) ==
    IF t > Len(shps) THEN [mem |-> mem, handles |-> <<>>]
    ELSE LET a == Allocate(mem, shps[t], 0)
             filled == Store(a.mem, a.handle, [p \in 1..Product(shps[t]) |-> InputValue(t, p - 1)])
             rest == Upload(filled, shps, t + 1)
         IN [mem |-> rest.mem, handles |-> <<a.handle>> \o rest.handles]

Junk == {0, 1}

Configs ==
    { EinsumConfig("Auto", TRUE),           \* default()
      EinsumConfig("Greedy", FALSE),        \* fast()
      EinsumConfig("Optimal", TRUE),        \* safe()
      EinsumConfig("BranchBound", TRUE) }   \* default().with_strategy(BranchBound)

ExecInit ==
    /\ \E n \in ExecCorpus, sizes \in ExecSizes : notation = n /\ shapes = ExecShapes(n, sizes)
    /\ \E junk \in Junk, strict \in BOOLEAN, out_shape \in OutputShapes(notation, shapes),
          hash_order \in HashOrders(notation) :
          LET up == Upload(Memory(<<>>, junk, strict, hash_order), shapes, 1)
              out == empty(up.mem, out_shape)
          IN /\ device = out.mem
             /\ tensors = [inputs |-> up.handles, output |-> out.handle]
    /\ call = Idle
    /\ validation = None
    /\ plan = None
    /\ searched = None
    /\ result = None
    /\ text = <<>>
    /\ parsed = None
    /\ shown = None
    /\ pool = None
    /\ grid = None

\* einsum(client, notation, inputs, output, Some(config))
Einsum ==
    /\ call = Idle
    /\ \E config \in Configs :
          LET r == Call("einsum", <<device, notation, tensors.inputs, tensors.output, config>>)
          IN /\ call' = [op |-> "einsum", config |-> config, mem |-> device,
                         output |-> tensors.output]
             /\ device' = r.mem
             /\ tensors' = [tensors EXCEPT !.output = r.output]
             /\ result' = Some([res |-> r.res, log |-> r.log])
    /\ UNCHANGED <<pool, grid, text, parsed, shown, notation, shapes, validation, plan, searched>>

\* einsum_with_notation(client, notation, inputs, output, Some(config))
EinsumWithNotation ==
    /\ call = Idle
    /\ \E config \in Configs :
          LET r == Call("einsum_with_notation", <<device, notation, tensors.inputs, tensors.output, config>>)
          IN /\ call' = [op |-> "einsum_with_notation", config |-> config, mem |-> device,
                         output |-> tensors.output]
             /\ device' = r.mem
             /\ tensors' = [tensors EXCEPT !.output = r.output]
             /\ result' = Some([res |-> r.res, log |-> r.log])
    /\ UNCHANGED <<pool, grid, text, parsed, shown, notation, shapes, validation, plan, searched>>

ExecNext ==
    \/ Einsum
    \/ EinsumWithNotation

SpecExec == ExecInit /\ [][ExecNext]_vars

-----------------------------------------------------------------------------
(* The parser specification: a string is parsed, and what was parsed is     *)
(* formatted.                                                               *)

\* Strings are made of at most MaxPieces pieces.
MaxPieces == 4

Pieces ==
    { <<Chr.i>>, <<Chr.j>>, <<Chr.i, Chr.j>>, <<Sym.comma>>, Arrow,
      <<Sym.dot, Sym.dot, Sym.dot>>, <<Sym.dot>>, <<Sym.space>>, <<Sym.newline>>,
      <<Sym.dollar>> }

\* "..ij,jk->ik", "ij,jk->ik", "kj,ki" and " ...ij , ...jk ".
LongTexts ==
    { <<Sym.dot, Sym.dot, Chr.i, Chr.j, Sym.comma, Chr.j, Chr.k>> \o Arrow \o <<Chr.i, Chr.k>>,
      <<Chr.i, Chr.j, Sym.comma, Chr.j, Chr.k>> \o Arrow \o <<Chr.i, Chr.k>>,
      <<Chr.k, Chr.j, Sym.comma, Chr.k, Chr.i>>,
      <<Sym.space, Sym.dot, Sym.dot, Sym.dot, Chr.i, Chr.j, Sym.space, Sym.comma, Sym.space,
        Sym.dot, Sym.dot, Sym.dot, Chr.j, Chr.k, Sym.space>> }

Texts ==
    {Flatten(ps) : ps \in UNION {[1..n -> Pieces] : n \in 0..MaxPieces}} \cup LongTexts

ParseInit ==
    /\ text \in Texts
    /\ parsed = None
    /\ shown = None
    /\ notation = EinsumNotation(<<>>, <<>>)
    /\ shapes = <<>>
    /\ call = Idle
    /\ validation = None
    /\ plan = None
    /\ searched = None
    /\ tensors = None
    /\ device = <<>>
    /\ result = None
    /\ pool = None
    /\ grid = None

\* parse_einsum(text)
ParseEinsum ==
    /\ call = Idle
    /\ call' = [op |-> "parse_einsum"]
    /\ parsed' = Some(parse_einsum(text))
    /\ UNCHANGED <<pool, grid, text, shown, notation, shapes, validation, plan, searched, tensors,
                   device, result>>

\* format!("{}", notation) of the notation parse_einsum returned
Format ==
    /\ call.op = "parse_einsum" /\ parsed.val.ok
    /\ call' = [op |-> "fmt"]
    /\ shown' = Some(fmt(parsed.val.val))
    /\ UNCHANGED <<pool, grid, text, parsed, notation, shapes, validation, plan, searched, tensors,
                   device, result>>

ParseNext ==
    \/ ParseEinsum
    \/ Format

SpecParse == ParseInit /\ [][ParseNext]_vars

-----------------------------------------------------------------------------
(* The planner's contracts. *)

PlanReturned == call.op = "create_plan" /\ plan.some /\ ~ IsPanic(plan.val)

GeneralPlanReturned == PlanReturned /\ ~ plan.val.uses_fast_path

\* execute_contractions' update of its tracked list after a step: remove the
\* higher position, then the lower one, and push the result.
TrackedAfter(tracked, i, j, produced) ==
    Append(RemoveAt(RemoveAt(tracked, MaxOf(i, j)), MinOf(i, j)), produced)

RECURSIVE ReplayFinds(_, _, _)
\* From step q on, the tracked list holds at each step's positions the two
\* index lists the planner read for that step.
ReplayFinds(tracked, steps, q) ==
    \/ q > Len(steps)
    \/ LET i == steps[q].inputs[1]
           j == steps[q].inputs[2]
       IN /\ i < Len(tracked)
          /\ j < Len(tracked)
          /\ tracked[i + 1] = steps[q].lhs
          /\ tracked[j + 1] = steps[q].rhs
          /\ ReplayFinds(TrackedAfter(tracked, i, j, steps[q].result), steps, q + 1)

\* C2: for every plan a path search built on n >= 2 inputs, replaying the
\* steps on the executor's tracked list (operands removed, result appended)
\* finds at each step's positions (i, j) the two index lists from which the
\* planner derived the step.
C2_ReplayFindsPlannedOperands ==
    (GeneralPlanReturned /\ num_inputs(notation) >= 2)
        => ReplayFinds(plan.val.input_indices, plan.val.steps, 1)

\* C5: create_plan's output shape is the output shape validate_shapes
\* computes, with or without an ellipsis.
C5_PlanShapeIsValidatedShape ==
    PlanReturned => plan.val.output_shape = validation.val.val.output_shape

SearchReturned(ops) == call.op \in ops /\ searched.some /\ ~ IsPanic(searched.val)

\* The sizes of a list of indices as the searches read them: each input's
\* named indices zipped with its shape.
SizesOf(indices) ==
    LET dim_map == PlanDimMap(notation, shapes, 1, <<>>)
    IN [p \in DOMAIN indices |->
          IF indices[p] \in DOMAIN dim_map THEN dim_map[indices[p]] ELSE 1]

RECURSIVE StepwiseCost(_, _, _)
\* The cost of the steps from q on, each charged by compute_pairwise_cost on
\* the two operands the search read for it.
StepwiseCost(steps, q, alpha) ==
    IF q > Len(steps) THEN 0
    ELSE Call("compute_pairwise_cost", <<alpha, SizesOf(steps[q].lhs), SizesOf(steps[q].rhs),
                               steps[q].lhs, steps[q].rhs,
                               steps[q].contracted_indices>>).total
         + StepwiseCost(steps, q + 1, alpha)

RECURSIVE CheapestOrder(_, _, _)
\* The least total cost over every order of pairwise contractions.
CheapestOrder(state, output_set, alpha) ==
    IF Len(state.shapes) <= 1 THEN 0
    ELSE LET c == Call("generate_candidates", <<state, output_set, alpha>>).candidates
         IN SetMin({c[q].cost.total
                      + CheapestOrder(Call("contract", <<state, c[q].step.inputs[1], c[q].step.inputs[2],
                                               c[q].step.result_indices>>), output_set, alpha) :
                    q \in DOMAIN c})

GreedyCost(alpha) ==
    StepwiseCost(Call("greedy_path", <<notation, shapes, alpha>>).steps, 1, alpha)

\* C9: the path optimal_path returns costs, step by step, no more than any
\* order of pairwise contractions, greedy's among them; on the skewed chain
\* with alpha = 0 its first step contracts inputs 0 and 1.
C9_OptimalIsCheapest ==
    (SearchReturned({"optimal_path"}) /\ num_inputs(notation) >= 2
        /\ ~ notation_has_ellipsis(notation)) =>
        /\ StepwiseCost(searched.val.steps, 1, call.alpha)
              <= CheapestOrder(TensorState(shapes, InitialIndices(notation)),
                               Range(output_indices(notation)), call.alpha)
        /\ StepwiseCost(searched.val.steps, 1, call.alpha) <= GreedyCost(call.alpha)
        /\ (notation = Chain3 /\ shapes = SkewedShapes /\ call.alpha = 0)
              => searched.val.steps[1].inputs = <<0, 1>>

BranchBoundCalls == {"branch_bound_path", "branch_bound_path_with_limits"}

NonIncreasing(s) == \A p \in 1..(Len(s) - 1) : s[p + 1] <= s[p]

\* C10: branch and bound, with or without limits, returns n - 1 steps whose
\* total cost is at most greedy's, and its best cost never increases.
C10_BranchBoundWithinGreedy ==
    (SearchReturned(BranchBoundCalls) /\ num_inputs(notation) >= 2) =>
        /\ Len(searched.val.steps) = num_inputs(notation) - 1
        /\ Call("compute_path_cost", <<searched.val, shapes, InitialIndices(notation), call.alpha>>).total
              <= Call("compute_path_cost", <<greedy_path(notation, shapes, call.alpha), shapes,
                                   InitialIndices(notation), call.alpha>>).total
        /\ NonIncreasing(searched.val.log)

C10_SearchImprovedOnGreedy ==
    /\ SearchReturned(BranchBoundCalls)
    /\ num_inputs(notation) >= 3
    /\ Len(searched.val.log) >= 2

\* C11: create_plan and einsum never abort: whatever the validated notation,
\* the shapes (empty tensors included) and the strategy, they return a plan
\* or an Ok/Err value, never a panic.
C11_NeverAborts ==
    /\ (call.op = "create_plan" /\ plan.some) => ~ IsPanic(plan.val)
    /\ (call.op \in {"einsum", "einsum_with_notation"} /\ result.some)
          => (result.val.res.ok \/ result.val.res.err # "Panic")

\* The width of the ellipsis under which the rank of every input of the
\* state matches its subscript, if there is one.
Widths ==
    {w \in 0..3 : \A t \in DOMAIN notation.inputs :
        Len(shapes[t]) = explicit_count(notation.inputs[t])
                         + (IF has_ellipsis(notation.inputs[t]) THEN w ELSE 0)}

\* The axes of the inputs in the order validate_shapes scans them, each as
\* the pair of its expanded index and its size.
Bindings ==
    LET batch == generate_batch_indices(SetMin(Widths))
    IN Flatten([t \in DOMAIN notation.inputs |->
                  LET expanded == named_indices(expand_ellipsis(notation.inputs[t], batch))
                  IN [p \in DOMAIN expanded |-> <<expanded[p], shapes[t][p]>>]])

\* The size of the first axis that carries the index of axis q.
FirstSize(q) == Bindings[SetMin({r \in DOMAIN Bindings : Bindings[r][1] = Bindings[q][1]})][2]

\* The axes whose size differs from the first size of their index.
Conflicts == {q \in DOMAIN Bindings : Bindings[q][2] # FirstSize(q)}

ShapesValidated ==
    /\ validation.some /\ Call("validate_notation", <<notation>>).ok
    /\ Len(shapes) = num_inputs(notation) /\ Widths # {}

\* C13: validate_shapes binds each expanded index to the size of the first
\* axis that carries it and fails with ShapeMismatch{index, expected: the
\* first size, got: the conflicting size} at the first axis that disagrees;
\* with matching ranks it succeeds iff no axis disagrees.
C13_FirstBindingWins ==
    ShapesValidated =>
        /\ IF Conflicts = {}
           THEN /\ validation.val.ok
                /\ DOMAIN validation.val.val.dim_map = {Bindings[q][1] : q \in DOMAIN Bindings}
                /\ \A q \in DOMAIN Bindings :
                      validation.val.val.dim_map[Bindings[q][1]] = FirstSize(q)
           ELSE validation.val = ShapeMismatch(Bindings[SetMin(Conflicts)][1],
                                               FirstSize(SetMin(Conflicts)),
                                               Bindings[SetMin(Conflicts)][2])
        /\ (<<notation, shapes>> = MismatchExample)
              => validation.val = ShapeMismatch(Chr.j, 4, 5)

\* Two axes disagree with the first size of their index, and the second of
\* them differs from the first conflicting size too.
C13_SecondConflictIgnored ==
    /\ ShapesValidated
    /\ Cardinality(Conflicts) >= 2
    /\ ~ validation.val.ok

-----------------------------------------------------------------------------
(* Properties of the parser. *)

HasArrow(s) == \E p \in 1..(Len(s) - 1) : s[p] = Sym.dash /\ s[p + 1] = Sym.gt

\* How often the index c occurs across the subscripts ins.
Occurrences(ins, c) ==
    Cardinality({tp \in UNION {{<<t, p>> : p \in DOMAIN ins[t]} : t \in DOMAIN ins} :
                   ins[tp[1]][tp[2]] = c})

\* The implied output: an ellipsis iff some input has one, then the named
\* indices that occur exactly once, ascending.
ImpliedOutput(ins) ==
    (IF \E t \in DOMAIN ins : Ellipsis \in Range(ins[t]) THEN <<Ellipsis>> ELSE <<>>)
    \o SortedSeq({c \in UNION {Range(ins[t]) : t \in DOMAIN ins} :
                    c # Ellipsis /\ Occurrences(ins, c) = 1})

RECURSIVE SubscriptText(_)
\* A subscript written out: "..." for the ellipsis, the character for an index.
SubscriptText(sub) ==
    IF sub = <<>> THEN <<>>
    ELSE (IF Head(sub) = Ellipsis THEN <<Sym.dot, Sym.dot, Sym.dot>> ELSE <<Head(sub)>>)
         \o SubscriptText(Tail(sub))

ParsedImplicit == parsed.some /\ parsed.val.ok /\ ~ HasArrow(text)

\* C14: a string without '->' that parses yields the same inputs, output,
\* contraction set and batch set as the string followed by '->' and the
\* implied output, which is the ascending sequence of the named indices that
\* occur exactly once across the inputs, after an ellipsis iff an input has one.
C14_ImplicitOutputEquivalence ==
    ParsedImplicit =>
        LET implicit == parsed.val.val
            implied == ImpliedOutput(implicit.inputs)
            explicit == parse_einsum(text \o Arrow \o SubscriptText(implied))
        IN /\ implicit.output = implied
           /\ explicit.ok
           /\ explicit.val.inputs = implicit.inputs
           /\ explicit.val.output = implicit.output
           /\ contraction_indices(explicit.val) = contraction_indices(implicit)
           /\ notation_batch_indices(explicit.val) = notation_batch_indices(implicit)

\* A string without '->' whose implied output both drops a repeated index
\* and reorders the indices that remain.
C14_ImpliedOutputSortedAndPruned ==
    /\ ParsedImplicit
    /\ \E c \in AllInputIndices(parsed.val.val) : c \notin Range(parsed.val.val.output)
    /\ SelectSeq(named_indices(Flatten(parsed.val.val.inputs)),
                 LAMBDA c : c \in Range(parsed.val.val.output))
          # named_indices(parsed.val.val.output)

\* The string without its whitespace.
Strip(s) == SelectSeq(s, LAMBDA c : ~ is_whitespace(c))

IsBlank(s) == \A p \in DOMAIN s : is_whitespace(s[p])

\* Some maximal run of dots is not a whole number of ellipses.
IncompleteEllipsis(s) ==
    \E p \in DOMAIN s :
        /\ s[p] = Sym.dot /\ (p = 1 \/ s[p - 1] # Sym.dot)
        /\ (SetMin({q \in p..(Len(s) + 1) : q = Len(s) + 1 \/ s[q] # Sym.dot}) - p) % 3 # 0

IsEllipsisAt(s, p) ==
    p + 2 <= Len(s) /\ s[p] = Sym.dot /\ s[p + 1] = Sym.dot /\ s[p + 2] = Sym.dot

\* Two ellipses with neither a comma nor an arrow between them.
TwoEllipses(s) ==
    \E p, q \in DOMAIN s :
        /\ p + 3 <= q /\ IsEllipsisAt(s, p) /\ IsEllipsisAt(s, q)
        /\ \A r \in p..q : s[r] \notin {Sym.comma, Sym.dash, Sym.gt}

\* The characters of s that are neither a letter, whitespace, a comma, a dot
\* nor part of an arrow.
InvalidCharacters(s) ==
    {s[p] : p \in {q \in DOMAIN s :
        /\ ~ is_letter(s[q]) /\ ~ is_whitespace(s[q]) /\ s[q] \notin {Sym.comma, Sym.dot}
        /\ ~ (s[q] = Sym.dash /\ q < Len(s) /\ s[q + 1] = Sym.gt)
        /\ ~ (s[q] = Sym.gt /\ q > 1 /\ s[q - 1] = Sym.dash)}}

\* Nothing but whitespace stands before the first arrow.
NoInputsText(s) ==
    \E p \in 1..(Len(s) - 1) :
        /\ s[p] = Sym.dash /\ s[p + 1] = Sym.gt
        /\ \A q \in 1..(p - 1) : is_whitespace(s[q])

IsParseError(r) == ~ r.ok /\ r.err = "ParseError"

Defective(s) ==
    \/ IsBlank(s) \/ IncompleteEllipsis(s) \/ TwoEllipses(s)
    \/ InvalidCharacters(s) # {} \/ NoInputsText(s)

-----------------------------------------------------------------------------
(* The executor's contracts. *)

\* A tensor given by its elements in row-major order, its shape and the index
\* that each axis carries.
Operand(vals, shape, indices) == [vals |-> vals, shape |-> shape, indices |-> indices]

\* The element of op at the coordinates that env assigns to its indices.
ElementAt(op, env) ==
    op.vals[Offset([p \in DOMAIN op.indices |-> env[op.indices[p]]],
                   compute_strides(op.shape)) + 1]

RECURSIVE SumProducts(_, _, _, _)
\* The sum, over every assignment to the indices of summed, of the product
\* of the operands' elements.
SumProducts(ops, summed, env, dim) ==
    IF summed = <<>> THEN Product([t \in DOMAIN ops |-> ElementAt(ops[t], env)])
    ELSE SumSeq([v \in 1..dim[Head(summed)] |->
                   SumProducts(ops, Tail(summed), MapInsert(env, Head(summed), v - 1), dim)])

\* The einsum of the operands: the tensor with one axis per index of
\* out_indices, every other index summed.
EinsumOf(ops, out_indices, dim) ==
    LET out_shape == [p \in DOMAIN out_indices |-> dim[out_indices[p]]]
        all == UNION {Range(ops[t].indices) : t \in DOMAIN ops}
        summed == SortedSeq(all \ Range(out_indices))
    IN [q \in 1..Product(out_shape) |->
          SumProducts(ops, summed,
                      [c \in Range(out_indices) |->
                         Unravel(q - 1, out_shape)[Position(out_indices, c).val + 1]],
                      dim)]

\* The einsum the notation defines on the caller's inputs, over the expanded
\* indices and the dimension map of the validator.
Expected ==
    LET v == Call("validate_shapes", <<notation, shapes>>).val
        batch == generate_batch_indices(v.ellipsis_dims)
        expanded(sub) == named_indices(expand_ellipsis(sub, batch))
    IN EinsumOf([t \in DOMAIN notation.inputs |->
                   Operand(TensorOf(call.mem, tensors.inputs[t]), shapes[t],
                           expanded(notation.inputs[t]))],
                expanded(notation.output), v.dim_map)

ValidatedShape == Call("validate_shapes", <<notation, shapes>>).val.output_shape

\* einsum has returned from a call whose output had the validated shape.
EinsumReturned == call.op = "einsum" /\ result.some

WellShapedCall == EinsumReturned /\ call.output.shape = ValidatedShape

Matched(kinds) ==
    Call("recognize_pattern", <<notation>>).some /\ Call("recognize_pattern", <<notation>>).val.kind \in kinds

\* einsum with the pattern matching of create_plan skipped, on the memory and
\* the output of the call.
einsum_without_patterns ==
    LET v == Call("validate_notation", <<notation>>)
    IN IF ~ v.ok THEN [mem |-> call.mem, output |-> call.output, res |-> v, log |-> <<>>]
       ELSE Call("PlanAndExecute", <<call.mem, notation, tensors.inputs, call.output, call.config,
                           Call("general_plan", <<notation, shapes, call.config.strategy>>)>>)

\* The fast path returned Ok, so did the general planner, and the two outputs
\* denote the same tensor.
SameAsGeneralPlanner ==
    LET g == einsum_without_patterns
    IN /\ result.val.res.ok
       /\ g.res.ok
       /\ tensors.output.shape = g.output.shape
       /\ TensorOf(device, tensors.output) = TensorOf(g.mem, g.output)

\* C1: for a notation matched as Matmul or BatchedMatmul and inputs of
\* matching shapes, the fast path yields the same tensor as the general
\* planner run with pattern matching skipped.
C1_MatmulFastPathIsGeneralPlanner ==
    (WellShapedCall /\ Matched({"Matmul", "BatchedMatmul"})) => SameAsGeneralPlanner

\* The tensor a step had to write: the sum over its contracted indices of
\* the product of its operands, with the axes of its result list.
StepExpected(e) ==
    EinsumOf(<<Operand(e.a, e.a_shape, e.a_indices), Operand(e.b, e.b_shape, e.b_indices)>>,
             e.result,
             ZipInsert(ZipInsert(<<>>, e.a_indices, e.a_shape), e.b_indices, e.b_shape))

\* The step's index lists name every axis of its operands (no axis hidden
\* behind an ellipsis).
Labelled(e) ==
    Len(e.a_indices) = Len(e.a_shape) /\ Len(e.b_indices) = Len(e.b_shape)

\* C3: every contraction step the general executor ran to completion wrote
\* the sum over the contracted indices of A.B with its axes in the order of
\* the step's result list.
C3_StepWritesContractionInResultOrder ==
    WellShapedCall =>
        \A q \in DOMAIN result.val.log :
            (result.val.log[q].res.ok /\ Labelled(result.val.log[q]))
                => result.val.log[q].written = StepExpected(result.val.log[q])

\* C4: einsum returns Ok only with an output of the validated shape, and
\* rejects an output of any other shape with a shape error.
C4_OkOnlyWithValidatedShape ==
    EinsumReturned =>
        /\ result.val.res.ok => tensors.output.shape = ValidatedShape
        /\ call.output.shape # ValidatedShape =>
              (~ result.val.res.ok /\ result.val.res.err \in {"ShapeError", "ShapeMismatch"})

\* C6: for a notation matched as Hadamard, OuterProduct or DotProduct and
\* inputs of matching shapes, the fast-path kernel returns Ok with the same
\* tensor as the general planner run with pattern matching skipped.
C6_ElementwiseFastPathIsGeneralPlanner ==
    (WellShapedCall /\ Matched({"Hadamard", "OuterProduct", "DotProduct"})) => SameAsGeneralPlanner

\* C7: for a notation matched as Trace, DiagonalExtract or Reduce the fast
\* path returns the tensor of the einsum the notation defines.
C7_UnaryFastPathIsEinsum ==
    (WellShapedCall /\ Matched({"Trace", "DiagonalExtract", "Reduce"})) =>
        /\ result.val.res.ok
        /\ tensors.output.shape = ValidatedShape
        /\ TensorOf(device, tensors.output) = Expected

\* Some input of the call is an empty tensor.
EmptyInput == \E t \in DOMAIN shapes : \E p \in DOMAIN shapes[t] : shapes[t][p] = 0

\* C12: an einsum call on validated shapes with an input dimension of size 0
\* returns Ok and issues no kernel launch, no GEMM call and no reduce call.
C12_EmptyInputLaunchesNothing ==
    (WellShapedCall /\ EmptyInput) =>
        /\ result.val.res.ok
        /\ device.launches = <<>>


EinsumCalled == call.op \in {"einsum", "einsum_with_notation"} /\ result.some

\* C17: when an einsum call returns, with success or with an error, every
\* buffer that existed before the call other than the caller's output buffer
\* holds what it held before, the caller's input buffers among them, and the
\* input handles are the ones the caller made; the call wrote only to the
\* output buffer and to buffers it allocated.
C17_InputsNotMutated ==
    EinsumCalled =>
        /\ \A b \in DOMAIN call.mem.bufs :
              b # call.output.buf => device.bufs[b] = call.mem.bufs[b]
        /\ \A t \in DOMAIN tensors.inputs :
              /\ tensors.inputs[t].buf # call.output.buf
              /\ device.bufs[tensors.inputs[t].buf] = call.mem.bufs[tensors.inputs[t].buf]
        /\ tensors.inputs = Upload(Memory(<<>>, call.mem.junk, call.mem.strict, call.mem.hash_order), shapes, 1).handles

\* A general plan ran to success: it issued a GEMM, allocated intermediates
\* and changed the caller's output buffer.
C17_GeneralPlanWroteOutput ==
    /\ EinsumCalled /\ result.val.res.ok
    /\ Len(result.val.log) >= 2
    /\ \E q \in DOMAIN device.launches : device.launches[q] = "gemm"
    /\ Len(device.bufs) > Len(call.mem.bufs)
    /\ device.bufs[tensors.output.buf] # call.mem.bufs[call.output.buf]


\* A product of two matrices over one shared index of which the output keeps
\* the free index of the first and drops the free index of the second.
MatmulWithReduction(n) ==
    /\ Len(n.inputs) = 2
    /\ \A t \in 1..2 : Len(n.inputs[t]) = 2 /\ ~ has_ellipsis(n.inputs[t])
                       /\ n.inputs[t][1] # n.inputs[t][2]
    /\ Cardinality(Range(n.inputs[1]) \cap Range(n.inputs[2])) = 1
    /\ Len(n.output) = 1
    /\ n.output[1] \in Range(n.inputs[1]) \ Range(n.inputs[2])

\* C18: create_plan reports a fast path for a matrix product whose second
\* free index is summed away, such as ij,jk->i with shapes [10,20],[20,30].
C18_MatmulWithReductionUsesFastPath ==
    (call.op = "create_plan" /\ plan.some /\ ~ IsPanic(plan.val) /\ MatmulWithReduction(notation))
        => plan.val.uses_fast_path


\* The list of remaining tensors after a step: the dynamic-programming path
\* puts the result in the place of the first operand, the other searches put
\* it at the end.
ListAfter(list, step, op) ==
    IF op = "optimal_path"
    THEN RemoveAt([list EXCEPT ![step.inputs[1] + 1] = step.result_indices], step.inputs[2])
    ELSE Append(Others(list, step.inputs[1], step.inputs[2]), step.result_indices)

\* The indices a step may sum: common to its two operands, absent from the
\* output and from every other tensor of the list.
Summable(list, step, output_set) ==
    (Range(list[step.inputs[1] + 1]) \cap Range(list[step.inputs[2] + 1]))
    \ (output_set \cup UNION {Range(list[t]) : t \in DOMAIN list \ {step.inputs[1] + 1,
                                                                      step.inputs[2] + 1}})

RECURSIVE StepsSumOnlyUnused(_, _, _, _, _)
StepsSumOnlyUnused(steps, q, list, output_set, op) ==
    IF q > Len(steps) THEN TRUE
    ELSE /\ steps[q].inputs[1] + 1 \in DOMAIN list /\ steps[q].inputs[2] + 1 \in DOMAIN list
         /\ Range(steps[q].contracted_indices) = Summable(list, steps[q], output_set)
         /\ Len(steps[q].contracted_indices) = Cardinality(Summable(list, steps[q], output_set))
         /\ StepsSumOnlyUnused(steps, q + 1, ListAfter(list, steps[q], op), output_set, op)

PathSearched ==
    /\ call.op \in {"greedy_path", "optimal_path", "branch_bound_path"}
    /\ searched.some /\ ~ IsPanic(searched.val)

\* C19: in every path greedy_path, optimal_path and branch_bound_path return,
\* each step contracts exactly the indices common to its two operands that
\* are neither in the output nor in another tensor remaining at that step.
C19_ContractedIndicesAreUnusedElsewhere ==
    PathSearched =>
        StepsSumOnlyUnused(searched.val.steps, 1, InitialIndices(notation),
                           Range(output_indices(notation)), call.op)


\* C20: a general plan of a validated notation with two or more inputs ends
\* in a step whose result index list is the output index sequence of the
\* notation, the same indices in the same order, whatever the strategy.
C20_LastStepResultIsOutput ==
    (GeneralPlanReturned /\ num_inputs(notation) >= 2 /\ plan.val.steps # <<>>)
        => plan.val.steps[Len(plan.val.steps)].result = output_indices(notation)


\* The steps of the returned call that reached the layout for GEMM.
GemmSteps ==
    IF EinsumCalled
    THEN {q \in DOMAIN result.val.log :
            Labelled(result.val.log[q]) /\ result.val.log[q].gemm.some}
    ELSE {}

\* The index each axis of a permuted operand carries.
ViewLabels(indices, perm) == [p \in DOMAIN perm |-> indices[perm[p] + 1]]

\* The indices of an operand of a step that are batch (in both operands, not
\* contracted), contracted, or free, in the operand's order.
GroupOf(e, indices, group) ==
    LET both == Range(e.a_indices) \cap Range(e.b_indices)
    IN SelectSeq(indices, LAMBDA c :
          CASE group = "batch" -> c \in both \ Range(e.contracted)
            [] group = "contracted" -> c \in Range(e.contracted)
            [] OTHER -> c \notin both /\ c \notin Range(e.contracted))

\* C21: the two views a step hands to GEMM carry the same index at each batch
\* position and at each K position, and the batch sizes of the target shapes
\* are listed in the order of those batch indices.
C21_ViewsAgreeIndexForIndex ==
    \A q \in GemmSteps :
        LET e == result.val.log[q]
            lay == e.gemm.val.layout
            nb == Len(lay.batch_indices)
            nk == Len(GroupOf(e, e.a_indices, "contracted"))
            lhs_labels == ViewLabels(e.a_indices, lay.lhs_perm)
            rhs_labels == ViewLabels(e.b_indices, lay.rhs_perm)
        IN /\ \A p \in 1..nb : /\ lhs_labels[p] = rhs_labels[p]
                               /\ lhs_labels[p] = lay.batch_indices[p]
           /\ Len(GroupOf(e, e.b_indices, "contracted")) = nk
           /\ \A p \in 1..nk : lhs_labels[Len(lhs_labels) - nk + p] = rhs_labels[nb + p]

GroupSizes(group, indices, shape) ==
    [p \in DOMAIN group |-> shape[Position(indices, group[p]).val + 1]]

\* C22: the two views a step hands to GEMM have the shapes [B..., M, K] and
\* [B..., K, N], the products of the sizes of the groups; an operand is copied
\* exactly when its permutation is not the identity and a group of it has
\* more than one index.
C22_ViewsAreBatchedMatrices ==
    \A q \in GemmSteps :
        LET e == result.val.log[q]
            g == e.gemm.val
            batch == GroupSizes(g.layout.batch_indices, e.a_indices, e.a_shape)
            m == Product(GroupSizes(GroupOf(e, e.a_indices, "free"), e.a_indices, e.a_shape))
            k == Product(GroupSizes(GroupOf(e, e.a_indices, "contracted"), e.a_indices, e.a_shape))
            n == Product(GroupSizes(GroupOf(e, e.b_indices, "free"), e.b_indices, e.b_shape))
            collapses(indices) ==
                \E group \in {"free", "contracted"} : Len(GroupOf(e, indices, group)) > 1
        IN /\ g.lhs.shape = batch \o <<m, k>>
           /\ g.rhs.shape = batch \o <<k, n>>
           /\ g.lhs_copied <=> (~ is_identity_permutation(g.layout.lhs_perm)
                                  /\ collapses(e.a_indices))
           /\ g.rhs_copied <=> (~ is_identity_permutation(g.layout.rhs_perm)
                                  /\ collapses(e.b_indices))


\* The steps of the returned call that contract nothing.
BroadcastSteps ==
    IF WellShapedCall
    THEN {q \in DOMAIN result.val.log :
            Labelled(result.val.log[q]) /\ result.val.log[q].contracted = <<>>}
    ELSE {}

\* The elementwise product of the operands of a step with its axes in the
\* order of the index list given.
ProductAlignedTo(e, indices) ==
    EinsumOf(<<Operand(e.a, e.a_shape, e.a_indices), Operand(e.b, e.b_shape, e.b_indices)>>,
             indices,
             ZipInsert(ZipInsert(<<>>, e.a_indices, e.a_shape), e.b_indices, e.b_shape))

\* C23: a step that contracts nothing returns Unsupported only when neither
\* operand's index set contains the other's; when one contains the other,
\* equal sets in different orders included, the step succeeds and writes the
\* elementwise product aligned to the index order of the containing operand.
C23_UnsupportedOnlyWithoutSubset ==
    \A q \in BroadcastSteps :
        LET e == result.val.log[q]
            a_in_b == Range(e.a_indices) \subseteq Range(e.b_indices)
            b_in_a == Range(e.b_indices) \subseteq Range(e.a_indices)
        IN (a_in_b \/ b_in_a) =>
              /\ e.res.ok
              /\ \/ b_in_a /\ e.written = ProductAlignedTo(e, e.a_indices)
                 \/ a_in_b /\ e.written = ProductAlignedTo(e, e.b_indices)

-----------------------------------------------------------------------------
(* execute_reduce. *)

ReduceAxes == Call("recognize_pattern", <<notation>>).val.axes

\* The input's shape without the axes to reduce, and with each of them of
\* size 1.
SqueezedShape ==
    LET shape == tensors.inputs[1].shape
        kept == SortedSeq({p \in DOMAIN shape : ~ Contains(ReduceAxes, p - 1)})
    IN [p \in DOMAIN kept |-> shape[kept[p]]]

KeepDimShape ==
    LET shape == tensors.inputs[1].shape
    IN [p \in DOMAIN shape |-> IF Contains(ReduceAxes, p - 1) THEN 1 ELSE shape[p]]

\* einsum took the Reduce fast path with axes of the input and an output of
\* the squeezed or of the keep-dim shape, and returned Ok.
ReduceCalled ==
    /\ EinsumReturned /\ Matched({"Reduce"}) /\ result.val.res.ok
    /\ \A q \in DOMAIN ReduceAxes : ReduceAxes[q] < Len(tensors.inputs[1].shape)
    /\ call.output.shape \in {SqueezedShape, KeepDimShape}

\* The sum of the caller's input over the axes to reduce.
SumOverAxes ==
    LET shape == tensors.inputs[1].shape
        axes == [p \in DOMAIN shape |-> p - 1]
    IN EinsumOf(<<Operand(TensorOf(call.mem, tensors.inputs[1]), shape, axes)>>,
                SortedSeq(Range(axes) \ Range(ReduceAxes)), ZipInsert(<<>>, axes, shape))

\* The q-th reduce call kept every axis of its input and gave the reduced
\* one size 1.
KeepDim(q) ==
    LET c == device.reduces[q]
    IN c.out.shape = [c.input.shape EXCEPT ![c.axis + 1] = 1]

\* The reduce calls form a chain from the caller's input: one call per axis,
\* the axes strictly descending, each call reading what the one before wrote.
ReduceChain ==
    /\ Len(device.reduces) = Len(ReduceAxes)
    /\ {device.reduces[q].axis : q \in DOMAIN device.reduces} = Range(ReduceAxes)
    /\ device.reduces[1].input = tensors.inputs[1]
    /\ \A q \in DOMAIN device.reduces : KeepDim(q)
    /\ \A q \in 2..Len(device.reduces) :
          /\ device.reduces[q].axis < device.reduces[q - 1].axis
          /\ device.reduces[q].input = device.reduces[q - 1].out

LastReduce == device.reduces[Len(device.reduces)]

Rebound == tensors.output.buf # call.output.buf

\* C24: execute_reduce with k >= 1 axes issues exactly k keep-dim reductions
\* in strictly descending axis order, each reading the result of the one
\* before; the output then holds the sum over the listed axes in the caller's
\* shape with contiguous strides, and its buffer is that of the last
\* intermediate exactly when the caller's shape differs from the last
\* keep-dim shape, the intermediate then having as many elements as the
\* output.
C24_ReduceChainsKeepDimReductions ==
    ReduceCalled =>
        /\ ReduceChain
        /\ tensors.output.shape = call.output.shape
        /\ tensors.output.strides = compute_strides(call.output.shape)
        /\ TensorOf(device, tensors.output) = SumOverAxes
        /\ Rebound <=> call.output.shape # LastReduce.out.shape
        /\ Rebound =>
              /\ tensors.output.buf = LastReduce.out.buf
              /\ Product(LastReduce.out.shape) = Product(call.output.shape)

\* A reduction over two axes of a nonempty input returned with its output
\* rebound.
C24_TwoAxesReducedAndRebound ==
    /\ ReduceCalled /\ Len(ReduceAxes) = 2 /\ Len(device.reduces) = 2 /\ Rebound
    /\ Product(tensors.inputs[1].shape) > 0

-----------------------------------------------------------------------------
(* execute_transpose. *)

\* einsum took the Transpose fast path on a well-shaped call and returned Ok.
TransposeCalled == WellShapedCall /\ Matched({"Transpose"}) /\ result.val.res.ok

\* C25: executing Transpose{perm} gives the output the input's shape and
\* strides permuted by perm and the input's buffer, so that the output view
\* reads the input's elements at the permuted coordinates; the input's
\* metadata is unchanged.
C25_TransposeAliasesInput ==
    TransposeCalled =>
        LET perm == Call("recognize_pattern", <<notation>>).val.permutation
            input == tensors.inputs[1]
        IN /\ tensors.output.shape = [p \in DOMAIN perm |-> input.shape[perm[p] + 1]]
           /\ tensors.output.strides = [p \in DOMAIN perm |-> input.strides[perm[p] + 1]]
           /\ tensors.output.buf = input.buf
           /\ TensorOf(device, tensors.output) = Expected
           /\ input = Upload(Memory(<<>>, call.mem.junk, call.mem.strict, call.mem.hash_order),
                             shapes, 1).handles[1]

-----------------------------------------------------------------------------
(* copy_reshape. *)

\* The elements of a tensor of the given shape, met on a row-major walk over
\* its axes taken in the order of perm.
PermutedData(vals, shape, perm) ==
    LET permuted_shape == [p \in DOMAIN perm |-> shape[perm[p] + 1]]
        permuted_strides == [p \in DOMAIN perm |-> compute_strides(shape)[perm[p] + 1]]
    IN [k \in 1..Product(permuted_shape) |->
          vals[Offset(Unravel(k - 1, permuted_shape), permuted_strides) + 1]]

\* The steps of the general plan that materialized an operand for GEMM.
CopySteps ==
    IF WellShapedCall
    THEN {q \in DOMAIN result.val.log :
            /\ result.val.log[q].gemm.some
            /\ \/ result.val.log[q].gemm.val.lhs_copied
               \/ result.val.log[q].gemm.val.rhs_copied}
    ELSE {}

\* C26: copy_reshape writes at every linear position k of the contiguous
\* output the element of the input view at the k-th coordinate of a row-major
\* walk over the view's shape, so a materialized permuted operand holds its
\* data in permuted order.
C26_CopyWalksTheView ==
    \A q \in CopySteps :
        LET e == result.val.log[q]
            g == e.gemm.val
        IN /\ g.lhs_copied =>
                 device.bufs[g.lhs.buf] = PermutedData(e.a, e.a_shape, g.layout.lhs_perm)
           /\ g.rhs_copied =>
                 device.bufs[g.rhs.buf] = PermutedData(e.b, e.b_shape, g.layout.rhs_perm)

-----------------------------------------------------------------------------
(* The lower bound of the branch-and-bound search. *)

RECURSIVE CompletionTotals(_, _, _)
\* The total cost of every sequence of pairwise contractions that takes the
\* state to a single tensor.
CompletionTotals(state, output_set, alpha) ==
    IF Len(state.shapes) <= 1 THEN {0}
    ELSE LET c == Call("generate_candidates", <<state, output_set, alpha>>)
         IN IF IsPanic(c) THEN {}
            ELSE UNION {{saturating_add(c.candidates[q].cost.total, t) :
                           t \in CompletionTotals(
                                    Call("contract", <<state, c.candidates[q].step.inputs[1],
                                             c.candidates[q].step.inputs[2],
                                             c.candidates[q].step.result_indices>>),
                                    output_set, alpha)} : q \in DOMAIN c.candidates}

RECURSIVE SearchStates(_, _, _)
\* The state and every state the search can reach from it.
SearchStates(state, output_set, alpha) ==
    IF Len(state.shapes) <= 1 THEN {state}
    ELSE LET c == Call("generate_candidates", <<state, output_set, alpha>>)
         IN IF IsPanic(c) THEN {state}
            ELSE {state} \cup
                 UNION {SearchStates(Call("contract", <<state, c.candidates[q].step.inputs[1],
                                              c.candidates[q].step.inputs[2],
                                              c.candidates[q].step.result_indices>>),
                                     output_set, alpha) : q \in DOMAIN c.candidates}

\* branch_bound_path has searched from a notation of two inputs or more.
BranchBoundSearched ==
    /\ call.op = "branch_bound_path" /\ searched.some /\ ~ IsPanic(searched.val)
    /\ num_inputs(notation) >= 2

\* C27: in every search state of two tensors or more, the optimistic
\* remaining cost is at most the total cost of every sequence of pairwise
\* contractions that reduces the state to one tensor.
C27_OptimisticCostIsLowerBound ==
    BranchBoundSearched =>
        LET output_set == Range(output_indices(notation))
        IN \A s \in SearchStates(TensorState(shapes, InitialIndices(notation)),
                                 output_set, call.alpha) :
              Len(s.shapes) >= 2 =>
                 \A t \in CompletionTotals(s, output_set, call.alpha) :
                    Call("optimistic_remaining_cost", <<call.alpha, s.shapes>>).total <= t

-----------------------------------------------------------------------------
(* The pairwise cost. *)

\* The product of the sizes of the distinct indices of S.
SizeOfIndices(S, dim_map) ==
    Product([p \in DOMAIN SortedSeq(S) |-> dim_map[SortedSeq(S)[p]]])

\* flops = 2.|output|.|K| and memory = |A| + |B| + |output| for the pair the
\* candidate contracts in the state, every index counted once.
CostAsDocumented(state, cand, alpha) ==
    LET i == cand.step.inputs[1] + 1
        j == cand.step.inputs[2] + 1
        dim_map == ZipInsert(ZipInsert(<<>>, state.indices[i], state.shapes[i]),
                             state.indices[j], state.shapes[j])
        K == Range(cand.step.contracted_indices)
        kept == (Range(state.indices[i]) \cup Range(state.indices[j])) \ K
        flops == 2 * SizeOfIndices(kept, dim_map) * SizeOfIndices(K, dim_map)
        memory == Product(state.shapes[i]) + Product(state.shapes[j])
                  + SizeOfIndices(kept, dim_map)
    IN /\ cand.cost.flops = flops
       /\ cand.cost.memory = memory
       /\ cand.cost.total = flops + alpha * memory

\* The operands of the state name every axis they have.
AxesNamed(state) ==
    \A t \in DOMAIN state.shapes : Len(state.indices[t]) = Len(state.shapes[t])

\* C28: compute_pairwise_cost returns flops = 2.|output|.|K| and memory =
\* |A| + |B| + |output|, |output| being the product of the sizes of the
\* distinct non-contracted indices of both operands, each counted once also
\* when it occurs in both operands or twice in one, and total = flops +
\* alpha.memory.
C28_PairwiseCostCountsEachIndexOnce ==
    BranchBoundSearched =>
        LET output_set == Range(output_indices(notation))
        IN \A s \in SearchStates(TensorState(shapes, InitialIndices(notation)),
                                 output_set, call.alpha) :
              (Len(s.shapes) >= 2 /\ AxesNamed(s)) =>
                 LET c == Call("generate_candidates", <<s, output_set, call.alpha>>)
                 IN ~ IsPanic(c) =>
                       \A q \in DOMAIN c.candidates :
                          CostAsDocumented(s, c.candidates[q], call.alpha)

-----------------------------------------------------------------------------
(* launch/workspace.rs: the pool of temporary tensors. *)

\* A dtype is modelled by dtype.size(), the bytes of one element.
compute_tensor_size(shape, dtype) == Product(shape) * dtype

can_reuse_shape(existing, target) ==
    IF Len(existing) # Len(target) THEN FALSE
    ELSE Product(existing) = Product(target)

\* Workspace::new.  A tensor of the pool is its buffer, shape and dtype; made
\* counts the buffers allocated so far.
WorkspaceNew(max_size) ==
    [tensors |-> <<>>, tensor_usage |-> <<>>, max_size |-> max_size, made |-> 0]

\* self.tensor_usage.entry(step_idx).or_default().insert(tensor_idx)
InsertUsage(tensor_usage, step_idx, tensor_idx) ==
    MapInsert(tensor_usage, step_idx,
              (IF step_idx \in DOMAIN tensor_usage THEN tensor_usage[step_idx] ELSE {})
              \cup {tensor_idx})

mark_used(ws, tensor_idx, step_idx) ==
    [ws EXCEPT !.tensor_usage = InsertUsage(@, step_idx, tensor_idx)]

find_freed_after_step(ws, step_idx) ==
    LET usage == ws.tensor_usage
        used == UNION {usage[u] : u \in {k \in DOMAIN usage : k <= step_idx}}
    IN SortedSeq({t \in used : ~ \E later_step \in DOMAIN usage :
                                     later_step > step_idx /\ t \in usage[later_step]})

current_memory_usage(ws) ==
    SumSeq([p \in DOMAIN ws.tensors |->
              compute_tensor_size(ws.tensors[p].shape, ws.tensors[p].dtype)])

\* The first allocation that fits is moved to the end of the list.  moved is
\* a history field: the position the tensor had before.
find_reusable_allocation(ws, min_size, target_shape) ==
    LET fit == {p \in DOMAIN ws.tensors :
                  /\ compute_tensor_size(ws.tensors[p].shape, ws.tensors[p].dtype) >= min_size
                  /\ can_reuse_shape(ws.tensors[p].shape, target_shape)}
    IN IF fit = {} THEN [ws |-> ws, found |-> None]
       ELSE LET i == SetMin(fit) - 1
            IN [ws |-> [ws EXCEPT !.tensors = Append(RemoveAt(@, i), @[i + 1])],
                found |-> Some(Len(ws.tensors) - 1), moved |-> i]

\* reused and source are history fields: whether the call handed back an
\* allocation made before, and the position it had when the call began.
alloc(ws, shape, dtype, step_idx) ==
    LET size_bytes == compute_tensor_size(shape, dtype)
        reuse == find_reusable_allocation(ws, size_bytes, shape)
    IN IF ws.max_size > 0 /\ current_memory_usage(ws) + size_bytes > ws.max_size
       THEN [ws |-> ws, res |-> Err("MemoryError"), reused |-> FALSE, source |-> 0]
       ELSE IF reuse.found.some
       THEN [ws |-> reuse.ws, res |-> Ok(reuse.found.val), reused |-> TRUE,
             source |-> reuse.moved]
       ELSE [ws |-> [ws EXCEPT
                       !.tensor_usage = InsertUsage(@, step_idx, Len(ws.tensors)),
                       !.tensors = Append(@, [buf |-> ws.made + 1, shape |-> shape,
                                              dtype |-> dtype]),
                       !.made = @ + 1],
             res |-> Ok(Len(ws.tensors)), reused |-> FALSE, source |-> 0]

-----------------------------------------------------------------------------
(* The workspace specification: allocations and uses at the steps of a plan. *)

\* Steps are drawn from 0..MaxStep.
MaxStep == 2

\* A workspace allocates at most MaxTensors buffers.
MaxTensors == 2

WsShapes == {<<2>>, <<1, 2>>, <<2, 1>>}

\* The element sizes of f16 and f32.
DTypes == {2, 4}

\* Workspace::default() and a cap of twelve bytes.
MaxSizes == {0, 12}

NoCall == [op |-> "none"]

WorkspaceInit ==
    /\ \E max_size \in MaxSizes : pool = [ws |-> WorkspaceNew(max_size), last |-> NoCall]
    /\ grid = None
    /\ notation = EinsumNotation(<<>>, <<>>)
    /\ shapes = <<>>
    /\ call = Idle
    /\ validation = None
    /\ plan = None
    /\ searched = None
    /\ tensors = None
    /\ device = <<>>
    /\ result = None
    /\ text = <<>>
    /\ parsed = None
    /\ shown = None

\* workspace.alloc(client, shape, dtype, step_idx)
Alloc ==
    /\ \E shape \in WsShapes, dtype \in DTypes, step_idx \in 0..MaxStep :
          LET r == alloc(pool.ws, shape, dtype, step_idx)
          IN /\ r.ws.made <= MaxTensors
             /\ pool' = [ws |-> r.ws,
                         last |-> [op |-> "alloc", step_idx |-> step_idx, res |-> r.res,
                                   reused |-> r.reused, source |-> r.source,
                                   before |-> pool.ws]]
    /\ UNCHANGED <<grid, text, parsed, shown, notation, shapes, call, validation, plan,
                   searched, tensors, device, result>>

\* workspace.mark_used(tensor_idx, step_idx)
MarkUsed ==
    /\ \E tensor_idx \in 0..(Len(pool.ws.tensors) - 1), step_idx \in 0..MaxStep :
          pool' = [ws |-> mark_used(pool.ws, tensor_idx, step_idx),
                   last |-> [op |-> "mark_used", step_idx |-> step_idx, res |-> Ok(tensor_idx),
                             reused |-> FALSE, source |-> tensor_idx, before |-> pool.ws]]
    /\ UNCHANGED <<grid, text, parsed, shown, notation, shapes, call, validation, plan,
                   searched, tensors, device, result>>

WorkspaceNext ==
    \/ Alloc
    \/ MarkUsed

SpecWorkspace == WorkspaceInit /\ [][WorkspaceNext]_vars

\* alloc has just handed back an allocation made before.
Reused == pool.last.op = "alloc" /\ pool.last.reused

\* C30: alloc hands back an already-allocated tensor only if that tensor is
\* among those find_freed_after_step reports as freed at the requesting
\* step, so that no tensor still in use at a later step is handed out again.
C30_ReuseOnlyOfFreedTensors ==
    Reused =>
        Contains(find_freed_after_step(pool.last.before, pool.last.step_idx),
                 pool.last.source)

-----------------------------------------------------------------------------
(* kernels/dot_product.rs: the passes of launch_dot_product, block by block  *)
(* and thread by thread.                                                     *)

\* Stands for the block size 256: a power of two.
BLOCK_SIZE == 4

\* Stands for 2^32: a u32 wraps at U32Modulus.
U32Modulus == 48

\* Element counts are drawn from 1..MaxElements and from the two counts next
\* to U32Modulus.
MaxElements == 26

DotSizes == (1..MaxElements) \cup {U32Modulus - 1, U32Modulus + 1}

\* The caller's data: lhs[k] and rhs[k].
DotLhs(k) == k + 1

DotRhs(k) == (k % 3) + 1

\* A kernel launch: the kernel, the buffer it reads (the two operands, or an
\* array of partial sums), the buffer it writes, and its scalar arguments.
KernelLaunch(name, input, out, num_elements, cube_count) ==
    [name |-> name, input |-> input, out |-> out, num_elements |-> num_elements,
     cube_count |-> cube_count]

\* dot_product_partial and reduce_partial_sums_multi walk the input with the
\* stride of the grid and write one cell per block.
GridStride(name) == name \in {"dot_product_partial", "reduce_partial_sums_multi"}

\* The number of cells of the buffer a kernel reads.
InputLen(g) ==
    IF g.kernel.input = "operands" THEN g.n ELSE Len(g.mem[g.kernel.input])

\* lhs[idx] * rhs[idx], or input[idx]; a read past the buffer yields 0.
ReadInput(g, idx) ==
    IF idx >= InputLen(g) THEN 0
    ELSE IF g.kernel.input = "operands" THEN DotLhs(idx) * DotRhs(idx)
    ELSE g.mem[g.kernel.input][idx + 1]

RECURSIVE AccumulateFrom(_, _, _, _, _)
\* while idx < num_elements { shared[UNIT_POS] += ..; idx += stride } in u32.
\* seen holds the positions read; the loop never ends if it meets one again.
AccumulateFrom(g, acc, idx, stride, seen) ==
    IF idx >= g.kernel.num_elements THEN [sum |-> acc, seen |-> seen, hung |-> FALSE]
    ELSE IF idx \in seen THEN [sum |-> acc, seen |-> seen, hung |-> TRUE]
    ELSE AccumulateFrom(g, acc + ReadInput(g, idx), (idx + stride) % U32Modulus, stride,
                        seen \cup {idx})

\* A block at its start: every thread before its first statement.  The
\* threads' registers num_active and jump hold the same values in every
\* thread between two barriers and are kept once; in_tree tells that the
\* threads are past the first barrier.  reads and
\* writes are history fields: the shared-memory cells each thread has read
\* and written since the last barrier, as pairs <<thread, cell>>.
NewBlock(cube_pos) ==
    [cube_pos |-> cube_pos,
     shared |-> [u \in 1..BLOCK_SIZE |-> 0],
     pc |-> [u \in 1..BLOCK_SIZE |-> "start"],
     val |-> [u \in 1..BLOCK_SIZE |-> 0],
     num_active |-> BLOCK_SIZE, jump |-> 1, in_tree |-> FALSE,
     reads |-> {}, writes |-> {}]

\* Two threads touched one shared-memory cell since the last barrier, one of
\* them writing it.
Race(blk) ==
    \E w \in blk.writes, a \in blk.reads \cup blk.writes : a[2] = w[2] /\ a[1] # w[1]

-----------------------------------------------------------------------------
(* The dot product specification. *)

DotInit ==
    /\ \E n \in DotSizes :
          grid = [n |-> n, stage |-> "called", kernel |-> None, block |-> None,
                  finished |-> {}, num_blocks |-> 0, final_blocks |-> 0,
                  hits |-> <<>>,
                  mem |-> [partial_sums |-> <<>>, level2_partials |-> <<>>,
                           output |-> <<0 - 1>>]]
    /\ pool = None
    /\ notation = EinsumNotation(<<>>, <<>>)
    /\ shapes = <<>>
    /\ call = Idle
    /\ validation = None
    /\ plan = None
    /\ searched = None
    /\ tensors = None
    /\ device = <<>>
    /\ result = None
    /\ text = <<>>
    /\ parsed = None
    /\ shown = None

NoEinsum ==
    UNCHANGED <<pool, text, parsed, shown, notation, shapes, call, validation, plan,
                searched, tensors, device, result>>

\* The grid g with the launch k issued.  hits is a history field: how often
\* this launch has read each cell of its input.
Launched(g, k) ==
    [g EXCEPT !.stage = "running", !.kernel = k, !.finished = {}, !.block = None,
              !.hits = [c \in 1..InputLen([g EXCEPT !.kernel = k]) |-> 0]]

\* launch_dot_product up to its first launch.  num_elements as u32 drops the
\* high bits; num_elements_u32 + BLOCK_SIZE - 1 panics in a build with
\* overflow checks and wraps in one without.
LaunchDotProduct ==
    /\ grid.stage = "called"
    /\ LET num_elements_u32 == grid.n % U32Modulus
           sum == num_elements_u32 + BLOCK_SIZE - 1
           num_blocks == (sum % U32Modulus) \div BLOCK_SIZE
           g == [grid EXCEPT !.num_blocks = num_blocks,
                             !.mem.partial_sums = [c \in 1..num_blocks |-> 0]]
       IN \/ /\ sum >= U32Modulus
             /\ grid' = [grid EXCEPT !.stage = "panicked"]
          \/ /\ num_blocks = 1
             /\ grid' = Launched([grid EXCEPT !.num_blocks = 1],
                                 KernelLaunch("dot_product_fused", "operands", "output",
                                              num_elements_u32, 1))
          \/ /\ num_blocks # 1
             /\ grid' = Launched(g, KernelLaunch("dot_product_partial", "operands",
                                                 "partial_sums", num_elements_u32,
                                                 num_blocks))
    /\ NoEinsum

\* The device starts one of the blocks of the launch.
StartBlock ==
    /\ grid.stage = "running" /\ ~ grid.block.some
    /\ \E cube_pos \in (0..(grid.kernel.cube_count - 1)) \ grid.finished :
          grid' = [grid EXCEPT !.block = Some(NewBlock(cube_pos))]
    /\ NoEinsum

\* A thread runs from its first statement to the first sync_cube.
Accumulate ==
    /\ grid.stage = "running" /\ grid.block.some
    /\ \E u \in 1..BLOCK_SIZE :
          /\ grid.block.val.pc[u] = "start"
          /\ LET blk == grid.block.val
                 unit_pos == u - 1
                 first == IF GridStride(grid.kernel.name)
                          THEN (blk.cube_pos * BLOCK_SIZE + unit_pos) % U32Modulus
                          ELSE unit_pos
                 stride == IF GridStride(grid.kernel.name)
                           THEN (grid.kernel.cube_count * BLOCK_SIZE) % U32Modulus
                           ELSE BLOCK_SIZE
                 r == AccumulateFrom(grid, 0, first, stride, {})
             IN grid' = [grid EXCEPT
                           !.block.val.shared[u] = r.sum,
                           !.block.val.pc[u] = IF r.hung THEN "hung" ELSE "sync",
                           !.block.val.reads = @ \cup {<<unit_pos, unit_pos>>},
                           !.block.val.writes = @ \cup {<<unit_pos, unit_pos>>},
                           !.hits = [c \in DOMAIN @ |->
                                       IF c - 1 \in r.seen THEN @[c] + 1 ELSE @[c]]]
    /\ NoEinsum

\* sync_cube(): every thread has arrived.  The threads below num_active go
\* on to the next round of the tree; after the last round thread 0 goes on
\* to write the result.
SyncCube ==
    /\ grid.stage = "running" /\ grid.block.some
    /\ \A u \in 1..BLOCK_SIZE : grid.block.val.pc[u] = "sync"
    /\ LET blk == grid.block.val
           num_active == blk.num_active \div 2
       IN IF blk.num_active > 1
          THEN grid' = [grid EXCEPT
                          !.block.val.num_active = num_active,
                          !.block.val.jump = IF blk.in_tree THEN 2 * blk.jump ELSE blk.jump,
                          !.block.val.in_tree = TRUE,
                          !.block.val.pc = [u \in 1..BLOCK_SIZE |->
                                              IF u - 1 < num_active THEN "load" ELSE "skip"],
                          !.block.val.reads = {}, !.block.val.writes = {}]
          ELSE grid' = [grid EXCEPT
                          !.block.val.pc = [u \in 1..BLOCK_SIZE |->
                                              IF u = 1 THEN "write" ELSE "done"],
                          !.block.val.reads = {}, !.block.val.writes = {}]
    /\ NoEinsum

\* let val = shared[src]
LoadShared ==
    /\ grid.stage = "running" /\ grid.block.some
    /\ \E u \in 1..BLOCK_SIZE :
          /\ grid.block.val.pc[u] = "load"
          /\ LET blk == grid.block.val
                 src == blk.jump * (2 * (u - 1) + 1)
             IN grid' = [grid EXCEPT
                           !.block.val.val[u] = blk.shared[src + 1],
                           !.block.val.pc[u] = "add",
                           !.block.val.reads = @ \cup {<<u - 1, src>>}]
    /\ NoEinsum

\* shared[dest] += val, and the thread goes on to sync_cube.
AddShared ==
    /\ grid.stage = "running" /\ grid.block.some
    /\ \E u \in 1..BLOCK_SIZE :
          /\ grid.block.val.pc[u] = "add"
          /\ LET blk == grid.block.val
                 dest == blk.jump * 2 * (u - 1)
             IN grid' = [grid EXCEPT
                           !.block.val.shared[dest + 1] = @ + blk.val[u],
                           !.block.val.pc[u] = "sync",
                           !.block.val.reads = @ \cup {<<u - 1, dest>>},
                           !.block.val.writes = @ \cup {<<u - 1, dest>>}]
    /\ NoEinsum

\* A thread at or above num_active skips the round's body.
SkipRound ==
    /\ grid.stage = "running" /\ grid.block.some
    /\ \E u \in 1..BLOCK_SIZE :
          /\ grid.block.val.pc[u] = "skip"
          /\ grid' = [grid EXCEPT !.block.val.pc[u] = "sync"]
    /\ NoEinsum

\* if UNIT_POS == 0 { output[0] = shared[0] }, or partial_sums[CUBE_POS] =
\* shared[0]: the block is finished.
WriteResult ==
    /\ grid.stage = "running" /\ grid.block.some
    /\ grid.block.val.pc[1] = "write"
    /\ LET blk == grid.block.val
           cell == IF GridStride(grid.kernel.name) THEN blk.cube_pos ELSE 0
       IN grid' = [grid EXCEPT
                     !.mem[grid.kernel.out][cell + 1] = blk.shared[1],
                     !.finished = @ \cup {blk.cube_pos},
                     !.block = None]
    /\ NoEinsum

\* Every block of the launch has finished.
KernelFinished ==
    /\ grid.stage = "running" /\ ~ grid.block.some
    /\ grid.finished = 0..(grid.kernel.cube_count - 1)

\* launch_dot_product after dot_product_partial or reduce_partial_sums_multi:
\* the next pass is launched.
NextPass ==
    /\ KernelFinished
    /\ GridStride(grid.kernel.name)
    /\ LET final_blocks == ((grid.num_blocks + BLOCK_SIZE - 1) % U32Modulus) \div BLOCK_SIZE
           g == [grid EXCEPT !.final_blocks = final_blocks,
                             !.mem.level2_partials = [c \in 1..final_blocks |-> 0]]
       IN IF grid.kernel.name = "reduce_partial_sums_multi"
          THEN grid' = Launched(grid, KernelLaunch("reduce_partial_sums", "level2_partials",
                                                   "output", grid.final_blocks, 1))
          ELSE IF final_blocks = 1
          THEN grid' = Launched([grid EXCEPT !.final_blocks = 1],
                                KernelLaunch("reduce_partial_sums", "partial_sums", "output",
                                             grid.num_blocks, 1))
          ELSE grid' = Launched(g, KernelLaunch("reduce_partial_sums_multi", "partial_sums",
                                                "level2_partials", grid.num_blocks,
                                                final_blocks))
    /\ NoEinsum

\* launch_dot_product returns Ok(()) after its last pass.
Return ==
    /\ KernelFinished
    /\ ~ GridStride(grid.kernel.name)
    /\ grid' = [grid EXCEPT !.stage = "returned"]
    /\ NoEinsum

DotNext ==
    \/ LaunchDotProduct
    \/ StartBlock
    \/ Accumulate
    \/ SyncCube
    \/ LoadShared
    \/ AddShared
    \/ SkipRound
    \/ WriteResult
    \/ NextPass
    \/ Return

SpecDot == DotInit /\ [][DotNext]_vars

\* The dot product of the caller's operands.
DotSum(n) == SumSeq([k \in 1..n |-> DotLhs(k - 1) * DotRhs(k - 1)])

\* The finished launch has read every cell of its input exactly once.
ReadOnce == KernelFinished => \A c \in DOMAIN grid.hits : grid.hits[c] = 1

\* The element count is small enough for every u32 of the launch: no index
\* of the grid-stride loop wraps.
WithinU32 == 2 * (grid.n + BLOCK_SIZE - 1) < U32Modulus

\* Within that range the launch is free of races, reads every input cell
\* once per pass and returns the dot product.
DotProductWithinU32 ==
    WithinU32 =>
        /\ grid.block.some => ~ Race(grid.block.val)
        /\ ReadOnce
        /\ grid.stage = "returned" => grid.mem.output[1] = DotSum(grid.n)

\* C29: for every element count N >= 1 launch_dot_product leaves in
\* output[0] the sum of the products lhs[k] * rhs[k]; each of its passes
\* accumulates every product or partial sum exactly once, and between two
\* barriers no shared-memory cell is written by one thread while another
\* thread reads or writes it.
C29_DotProductSumsEveryProductOnce ==
    /\ grid.stage # "panicked"
    /\ grid.block.some => ~ Race(grid.block.val)
    /\ ReadOnce
    /\ grid.stage = "returned" => grid.mem.output[1] = DotSum(grid.n)

====
